---- MODULE Spec2Model ----
(***************************************************************************)
(* Model of the AFIW-ZulfiQode Lawyer-AI pipeline:                         *)
(*   - ReconciliationMerger: app/agents/management_analyzer.py             *)
(*   - Verifier scoring:     app/agents/verifier.py                        *)
(*   - Plan/Execute/Verify/Judge pipeline: app/agents/lawyer_ai.py,        *)
(*     executor.py, judge.py, core/metrics.py, data/*.py                   *)
(*                                                                         *)
(* Numbers.  Python floats are modelled by scaled integers:                *)
(*   confidences handled by the merger are in tenths (800 = 80.0),         *)
(*   CII / TIT are in hundredths (7385 = 73.85).                           *)
(* JSON values are tagged records: Num(n), Str(s), Dict(d), where a dict   *)
(* is a function from its keys (strings) to JSON values.                   *)
(***************************************************************************)
EXTENDS Integers, Sequences, FiniteSets, TLC

VARIABLES
    \* --- ReconciliationMerger harness ---
    m_op,         \* operation that produced `merged`: "init", "merge", "pdf", "pdf_bytes", "web"
    primary,      \* first argument of the last _merge_json call (or of the pending one)
    secondary,    \* second argument of the last _merge_json call (or of the pending one)
    merged,       \* value returned by the operation
    gpt_json,     \* record obtained from the GPT client in an analyze_* call
    local_json,   \* record obtained from the local pipeline in an analyze_* call
    m_called,     \* TRUE iff the analyze_* call reached _merge_json
    \* --- LawyerAIOrchestrator.run_analysis ---
    pc,           \* position in run_analysis
    run_filename, \* argument: the file name, as its dot-separated parts
    file_bytes,   \* argument: the content of file_bytes
    run_env,      \* outcomes of the collaborators the executor called
    run_plan,     \* local `plan`
    raw_data,     \* local `raw_data`
    run_verified, \* local `verified`
    final_json,   \* local `final_json`
    returned,     \* the value run_analysis returned
    stages,       \* the stages run so far, in order
    previous_cii, \* VerifierAgent.previous_cii
    prom_gauges,  \* Prometheus gauges, per company label
    neo_graph,    \* Neo4j Company nodes
    \* --- VerifierAgent scoring harness ---
    cii_scores,   \* the four inputs of _compute_cii
    cii_result,   \* the computed index and its class
    tit_current,  \* the argument of _compute_tit
    tit_result,   \* the trend _compute_tit returned
    v_raw,        \* the argument of validate
    v_verified,
    vf_result,    \* argument of VerifierAgent.verify (Some record)
    vf_report,    \* what verify returned   \* the record validate returned
    \* --- RiskAnalyzer harness ---
    r_data,       \* argument of compute_ratios: the financial figures
    r_bias,       \* argument ethical_bias of compute_risk_score
    r_ratios,     \* what compute_ratios returned (or the exception it raised)
    r_risk,       \* what compute_risk_score returned
    r_scores,     \* arguments llm_score and econ_score of compare_models
    r_compare,    \* what compare_models returned
    \* --- JudgeAgent harness ---
    hs_args,      \* arguments of _compute_hs
    hs_value,     \* the score _compute_hs returned
    j_verified,   \* argument of finalize
    j_bases,      \* the values random.uniform yields during finalize
    j_final,      \* the record finalize returned
    \* --- repeated analyses by one orchestrator ---
    history,      \* per completed run_analysis call: subject, indices, persisted or not
    \* --- two run_analysis calls in flight on one process ---
    inv,          \* per invocation: its stage, arguments and locals
    rng_seed,     \* seed of the module-level generator of `random`
    rng_drawn,    \* number of values drawn from that generator so far
    \* --- one HTTP request passing through ObservabilityMiddleware ---
    http_pc,      \* position in dispatch
    http_request, \* the request, with request.state.request_id once set
    http_handled, \* what call_next did: a response, or an exception
    http_answer   \* what dispatch did: a response, or an exception

mergeVars == <<m_op, primary, secondary, merged, gpt_json, local_json, m_called>>
runVars == <<pc, run_filename, file_bytes, run_env, run_plan, raw_data, run_verified, final_json, returned,
             stages, previous_cii, prom_gauges, neo_graph>>
ciiVars == <<cii_scores, cii_result, tit_current, tit_result, v_raw, v_verified,
             vf_result, vf_report>>
riskVars == <<r_data, r_bias, r_ratios, r_risk, r_scores, r_compare>>
judgeVars == <<hs_args, hs_value, j_verified, j_bases, j_final>>
histVars == <<history>>
pairVars == <<inv, rng_seed, rng_drawn>>
httpVars == <<http_pc, http_request, http_handled, http_answer>>

vars == <<mergeVars, runVars, ciiVars, riskVars, judgeVars, histVars, pairVars, httpVars>>

-----------------------------------------------------------------------------
(* JSON values *)

Num(n) == [t |-> "num", v |-> n]
Str(s) == [t |-> "str", v |-> s]
Dict(d) == [t |-> "dict", v |-> d]

\* isinstance(x, (int, float))
IsNumber(x) == x.t = "num"
\* isinstance(x, dict)
IsDict(x) == x.t = "dict"

EmptyDict == [k \in {} |-> Str("")]

\* dict literal helpers
KV(k, val) == [x \in {k} |-> val]
\* {**a, **b}: b's entries override a's
Union2(a, b) == [k \in DOMAIN a \cup DOMAIN b |-> IF k \in DOMAIN b THEN b[k] ELSE a[k]]

NotAvailable == Str("not available")

\* A call that raises yields Exception instead of a value.
Exception == [exception |-> TRUE]
IsException(x) == x = Exception

-----------------------------------------------------------------------------
(* round(x, 1) of a value given in hundredths, result in tenths.           *)
(* Python rounds the exactly representable ties (.25, .75) half-to-even.   *)
Round1FromHundredths(h) ==
    LET q == h \div 10
        r == h % 10
    IN  IF r < 5 THEN q
        ELSE IF r > 5 THEN q + 1
        ELSE IF q % 2 = 0 THEN q ELSE q + 1

\* round((a + b) / 2, 1) for a, b in tenths; result in tenths
MeanRounded(a, b) == Round1FromHundredths((a + b) * 5)

-----------------------------------------------------------------------------
(* management_analyzer.py: _safe_load, _merge_json *)

\* _safe_load on a dict argument: `return d or {}`
SafeLoad(d) == IF DOMAIN d = {} THEN EmptyDict ELSE d

confidence_fields ==
    {"tone_confidence", "ethical_confidence", "risk_confidence", "authenticity_confidence"}

nested_fields ==
    {"composite_integrity_index", "temporal_integrity_trend", "operational_metrics",
     "future_performance_perspective", "hallucination_metrics"}

weighted_fields == {"technical_analysis", "management_analysis"}

\* plausible bugs: the secondary record is never copied / secondary overrides primary
MergeUpdatePrimaryOnly(p, s) == p
MergeUpdateSecondaryWins(p, s) == Union2(p, s)
\* out = dict(secondary); out.update(primary or {})
MergeUpdate(p, s) == Union2(s, p)

\* plausible bug: confidences are not averaged (primary simply wins)
MergeConfidencesNoAverage(p, s, out) == out
\* the confidence loop (lines 48-55)
MergeConfidences(p, s, out) ==
    [k \in DOMAIN out |->
        IF /\ k \in confidence_fields
           /\ k \in DOMAIN p /\ k \in DOMAIN s
           /\ IsNumber(s[k]) /\ IsNumber(p[k])
        THEN Num(MeanRounded(s[k].v, p[k].v))
        ELSE out[k]]

\* plausible bug: recursive (deep) merge of nested dictionaries
RECURSIVE DeepUnion(_, _)
DeepUnion(a, b) ==
    [k \in DOMAIN a \cup DOMAIN b |->
        IF k \in DOMAIN a /\ k \in DOMAIN b
        THEN IF IsDict(a[k]) /\ IsDict(b[k])
             THEN Dict(DeepUnion(a[k].v, b[k].v))
             ELSE b[k]
        ELSE IF k \in DOMAIN b THEN b[k] ELSE a[k]]

MergeNestedDeep(p, s, out) ==
    [k \in DOMAIN out |->
        IF /\ k \in nested_fields
           /\ k \in DOMAIN p /\ k \in DOMAIN s
           /\ IsDict(p[k]) /\ IsDict(s[k])
        THEN Dict(DeepUnion(s[k].v, p[k].v))
        ELSE out[k]]

\* the nested-dictionary loop (lines 58-63): out[key] = {**secondary[key], **primary[key]}
MergeNested(p, s, out) ==
    [k \in DOMAIN out |->
        IF /\ k \in nested_fields
           /\ k \in DOMAIN p /\ k \in DOMAIN s
           /\ IsDict(p[k]) /\ IsDict(s[k])
        THEN Dict(Union2(s[k].v, p[k].v))
        ELSE out[k]]

\* post-merge weighting (lines 67-75): primary's value if primary has the key,
\* else secondary's if secondary has it
MergeWeighted(p, s, out) ==
    [k \in DOMAIN out |->
        IF k \in weighted_fields
        THEN IF k \in DOMAIN p THEN p[k]
             ELSE IF k \in DOMAIN s THEN s[k]
             ELSE out[k]
        ELSE out[k]]

\* _merge_json(primary, secondary)
MergeJson(p, s) ==
    IF DOMAIN s = {} THEN p     \* if not secondary: return primary
    ELSE MergeWeighted(p, s, MergeNested(p, s, MergeConfidences(p, s, MergeUpdate(p, s))))

-----------------------------------------------------------------------------
(* Documents.  A text is abstracted to the phrases it contains; `head` holds *)
(* the phrases inside the first 3000 characters, `tail` the rest.           *)

Text(h, t) == [head |-> h, tail |-> t]
EmptyText == Text({}, {})
\* `phrase in text`
Contains(text, phrase) == phrase \in (text.head \cup text.tail)
ContainsAny(text, phrases) == \E k \in phrases : Contains(text, k)
\* text[:3000]
Preview(text) == Text(text.head, {})

\* phrases matched by  operating\s+cash\s+flow[^0-9\-]+([\-]?\d+[.,]?\d*) , with
\* the captured number in hundredths
OcfFigures == {"operating cash flow: 12.50", "operating cash flow: -3.00", "operating cash flow: 0"}
OcfNumber(f) ==
    CASE f = "operating cash flow: 12.50" -> 1250
      [] f = "operating cash flow: -3.00" -> -300
      [] OTHER -> 0

\* phrases matched by  gross\s+margin[^0-9]+(\d{1,2}\.?\d{0,2}) , captured number in hundredths
MarginFigures == {"gross margin: 8", "gross margin: 15", "gross margin: 0"}
MarginNumber(f) ==
    CASE f = "gross margin: 8" -> 800
      [] f = "gross margin: 15" -> 1500
      [] OTHER -> 0

\* round(sum / n, 2) for a sum in hundredths: exact ties go to the even neighbour
RoundDiv(sum, n) ==
    LET q == sum \div n
        r == sum % n
    IN  IF 2 * r < n THEN q
        ELSE IF 2 * r > n THEN q + 1
        ELSE IF q % 2 = 0 THEN q ELSE q + 1

RECURSIVE SeqSum(_)
SeqSum(s) == IF s = <<>> THEN 0 ELSE Head(s) + SeqSum(Tail(s))

RECURSIVE Flatten(_)
Flatten(ss) == IF ss = <<>> THEN <<>> ELSE Head(ss) \o Flatten(Tail(ss))

-----------------------------------------------------------------------------
(* data/extractor.py: FinancialExtractor *)

\* Optional values are sequences: <<>> is None, <<x>> is x.
None == <<>>
Some(x) == <<x>>

\* _find_ocf(text) -> (ocf_value, ocf_trend); ocf_value is None or a label
FindOcf(text) ==
    LET hits == {f \in OcfFigures : Contains(text, f)}
    IN  IF hits # {}
        THEN LET numeric == OcfNumber(CHOOSE f \in hits : TRUE)
             IN  [value |-> Some([label |-> "PKR bn", amount |-> numeric]),
                  trend |-> IF numeric > 0 THEN "positive" ELSE "negative"]
        ELSE IF Contains(text, "positive cash flow")
        THEN [value |-> Some([label |-> "positive (undisclosed)", amount |-> 0]), trend |-> "positive"]
        ELSE IF Contains(text, "negative cash flow") \/ Contains(text, "outflow")
        THEN [value |-> Some([label |-> "negative (undisclosed)", amount |-> 0]), trend |-> "negative"]
        ELSE [value |-> None, trend |-> "volatile"]

\* values collected from the table rows that mention "gross" and "margin"
TableMarginValues(tables) ==
    LET rows == Flatten(tables)
        picked == SelectSeq(rows, LAMBDA row : row.gross_margin)
    IN  Flatten([i \in 1..Len(picked) |-> picked[i].nums])

\* _find_gross_margin(text, tables) -> (value, trend); value is None or hundredths
FindGrossMargin(text, tables) ==
    LET hits == {f \in MarginFigures : Contains(text, f)}
        values == TableMarginValues(tables)
    IN  IF hits # {}
        THEN LET val == MarginNumber(CHOOSE f \in hits : TRUE)
             IN  [value |-> Some(val), trend |-> IF val > 1000 THEN "expanding" ELSE "contracting"]
        ELSE IF values # <<>>
        THEN LET avg == RoundDiv(SeqSum(values), Len(values))
             IN  [value |-> Some(avg), trend |-> IF avg > 1000 THEN "expanding" ELSE "contracting"]
        ELSE [value |-> None, trend |-> "stable"]

InterpretOcf(trend) ==
    CASE trend = "positive" -> "Company generates sustainable internal cash flows."
      [] trend = "negative" -> "Operational liquidity pressures are evident."
      [] trend = "volatile" -> "OCF fluctuates, possibly due to seasonal or restructuring effects."
      [] OTHER -> "OCF status uncertain due to missing data."

InterpretGme(trend) ==
    CASE trend = "expanding" -> "Improving cost management and pricing efficiency."
      [] trend = "contracting" -> "Shrinking margins; pricing or cost inefficiency present."
      [] trend = "stable" -> "Margins remain stable with consistent pricing performance."
      [] OTHER -> "No clear gross margin trend identified."

\* Python truthiness of an optional number (None and 0.0 are falsy)
TruthyNumber(opt) == opt # None /\ opt[1] # 0

\* extract_financial_metrics(text_content, tables)
ExtractFinancialMetrics(text, tables) ==
    LET ocf == FindOcf(text)
        gme == FindGrossMargin(text, tables)
    IN  [operational_cash_flow |->
            [ocf_value |-> IF ocf.value # None THEN ocf.value
                           ELSE Some([label |-> "not available", amount |-> 0]),
             ocf_trend |-> ocf.trend,
             ocf_confidence |-> IF ocf.value # None THEN 90 ELSE 0,
             interpretation |-> InterpretOcf(ocf.trend)],
         gross_margin_effect |->
            [gross_margin_percent |-> IF TruthyNumber(gme.value) THEN gme.value[1] ELSE 0,
             gme_trend |-> gme.trend,
             gme_confidence |-> IF TruthyNumber(gme.value) THEN 85 ELSE 0,
             interpretation |-> InterpretGme(gme.trend)]]

-----------------------------------------------------------------------------
(* agents/planner.py *)

PlanSteps ==
    <<"extract_text", "tone_analysis", "ethics_risk_analysis", "technical_indicators",
      "operational_metrics", "composite_index", "verification", "judgment">>

\* create_plan(task): one {step, content} entry per catalogue step
CreatePlan(task) == [i \in 1..Len(PlanSteps) |-> [step |-> PlanSteps[i], content |-> task]]

-----------------------------------------------------------------------------
(* File names are sequences of their dot-separated parts; <<>> is "". *)

Upper(w) ==
    CASE w = "hascol" -> "HASCOL"
      [] w = "engro" -> "ENGRO"
      [] OTHER -> w

\* len(company_name)
NameLen(name) ==
    CASE name = "HASCOL" -> 6
      [] name = "ENGRO" -> 5
      [] name = "Unknown Company" -> 15
      [] OTHER -> 0

\* TradingViewFetcher._guess_ticker: no mapping key occurs in these names,
\* so the ticker is name[:5].upper()
GuessTicker(name) ==
    CASE name = "HASCOL" -> "HASCO"
      [] name = "ENGRO" -> "ENGRO"
      [] name = "Unknown Company" -> "UNKNO"
      [] OTHER -> name

\* executor.py lines 44-51, for the list plans create_plan builds
CompanyNameOf(plan) ==
    IF Len(plan) > 0
    THEN LET filename == plan[1].content
         IN  IF filename # <<>> THEN Upper(filename[1]) ELSE "Unknown Company"
    ELSE "Unknown Company"

-----------------------------------------------------------------------------
(* data/trading_view.py: TradingViewFetcher.fetch *)

\* plausible bug: the fallback keeps the confidence of a successful fetch
TechnicalFallbackConfident ==
    [source |-> "TradingView",
     rsi_14_last_10_days |-> <<>>,
     ma_200 |-> <<>>,
     trend_summary |-> "not available",
     data_link |-> "not available",
     technical_confidence |-> 80]
\* the record returned when the fetch fails (lines 79-86; executor.py lines 110-117)
TechnicalFallback ==
    [source |-> "TradingView",
     rsi_14_last_10_days |-> <<>>,
     ma_200 |-> None,
     trend_summary |-> "not available",
     data_link |-> "not available",
     technical_confidence |-> 0]

\* placeholder RSI sequence: 45 + i % 10 for i in 0..9, reversed
RsiSeries == [j \in 1..10 |-> 45 + ((10 - j) % 10)]

\* fetch(company_name); `page` is the outcome of the HTTP request: ok (status 200)
\* with the words found in the page, or a failure (exception, non-200 status)
TradingFetch(company_name, page) ==
    IF ~page.ok THEN TechnicalFallback
    ELSE LET ticker == GuessTicker(company_name)
             trend == IF "buy" \in page.words THEN "bullish"
                      ELSE IF "sell" \in page.words THEN "bearish"
                      ELSE "neutral"
         IN  [source |-> "TradingView (PSX:" \o ticker \o ")",
              rsi_14_last_10_days |-> RsiSeries,
              ma_200 |-> Some(7000 + 100 * (NameLen(company_name) % 10)),
              trend_summary |-> CASE trend = "bullish" -> "Bullish momentum detected"
                                  [] trend = "bearish" -> "Bearish momentum detected"
                                  [] OTHER -> "Neutral momentum detected",
              data_link |-> "https://www.tradingview.com/symbols/PSX-" \o ticker \o "/technicals/",
              technical_confidence |-> 80]

-----------------------------------------------------------------------------
(* data/news_rss.py: NewsRSSFeed.fetch *)

\* A news item keeps the keywords its title and its summary contain.
NewsItem(kind, title, summary) == [kind |-> kind, title |-> title, summary |-> summary]

\* fetch(company_name) returns a list; its outcome is wrapped so that a raised
\* exception can be told from a returned list
Returned(x) == [raised |-> FALSE, value |-> x]
Raised == [raised |-> TRUE, value |-> <<>>]

\* fetch(company_name); `feed` is the outcome of reading the feeds: the entries
\* that mention the company, or a failure with the words of its message
NewsFetch(company_name, feed) ==
    IF ~feed.ok
    THEN Returned(<<NewsItem("News retrieval error", {}, feed.message)>>)
    ELSE IF feed.entries = <<>>
    THEN Returned(<<NewsItem("No recent articles found", {}, {})>>)
    ELSE Returned([i \in 1..Len(feed.entries) |->
            NewsItem("article", feed.entries[i].title, feed.entries[i].summary)])

-----------------------------------------------------------------------------
(* agents/executor.py: ExecutorAgent *)

\* _extract_from_pdf(file_bytes) -> (text, tables).  `pdf` is the outcome of the
\* two extractions: "ok", "text_failed" (the text extraction raised: nothing was
\* read), "tables_failed" (the text was read, the table extraction raised)
ExtractFromPdf(file, pdf) ==
    CASE pdf = "ok" -> [text |-> file.text, tables |-> file.tables]
      [] pdf = "tables_failed" -> [text |-> file.text, tables |-> <<>>]
      [] OTHER -> [text |-> EmptyText, tables |-> <<>>]

\* _fetch_trading_data(company_name): try fetch, except -> the fallback record
FetchTradingData(company_name, page) ==
    LET result == TradingFetch(company_name, page)
    IN  IF IsException(result) THEN TechnicalFallback ELSE result

\* _fetch_news(company_name): try fetch, except -> []
FetchNews(company_name, feed) ==
    LET news == NewsFetch(company_name, feed)
    IN  IF news.raised THEN <<>> ELSE news.value

\* execute(file_bytes, plan)
Execute(file, plan, env) ==
    LET extracted == ExtractFromPdf(file, env.pdf)
        company_name == CompanyNameOf(plan)
    IN  [company_name |-> company_name,
         text_content |-> Preview(extracted.text),
         operational_metrics |-> ExtractFinancialMetrics(extracted.text, extracted.tables),
         technical_analysis |-> FetchTradingData(company_name, env.page),
         news_rss |-> FetchNews(company_name, env.feed)]

-----------------------------------------------------------------------------
(* agents/verifier.py: VerifierAgent.  Scores are integers 0..100; CII and  *)
(* TIT are in hundredths.                                                   *)

\* dict.get(k, default)
Get(d, k, default) == IF k \in DOMAIN d THEN d[k] ELSE default

BootstrapPreviousCii == 6800

\* plausible bug: the risk term enters as Risk instead of (100 - Risk)
ComputeCiiRiskNotInverted(ethics, risk, technical, cycle) ==
    RoundDiv(3500 * ethics + 2500 * risk + 2000 * technical + 2000 * cycle, 100)
\* _compute_cii: round(0.35*e + 0.25*(100 - r) + 0.20*t + 0.20*c, 2), in hundredths
ComputeCii(ethics, risk, technical, cycle) ==
    RoundDiv(3500 * ethics + 2500 * (100 - risk) + 2000 * technical + 2000 * cycle, 100)

\* floor(log2(num / den)) for positive num, den
RECURSIVE Log2Floor(_, _)
Log2Floor(num, den) ==
    IF num >= 2 * den THEN 1 + Log2Floor(num, 2 * den)
    ELSE IF num < den THEN Log2Floor(2 * num, den) - 1
    ELSE 0

\* 2^k modulo 100
RECURSIVE Pow2Mod100(_)
Pow2Mod100(k) == IF k = 0 THEN 1 ELSE (2 * Pow2Mod100(k - 1)) % 100

\* The binary64 float that holds the two-decimal number x/100 (x >= 0 in
\* hundredths) is the nearest multiple of ulp = 2^(e - 52), e = floor(log2(x/100)).
\* FloatResidue(x) is (float - x/100) in hundredths of that ulp: with
\* rem = (x * 2^(52 - e)) mod 100 it is -rem when rounding down and 100 - rem
\* when rounding up (rem = 50 cannot occur, x * 2^(52 - e) being a multiple of 4).
FloatResidue(x) ==
    IF x = 0 THEN 0
    ELSE LET rem == ((x % 100) * Pow2Mod100(52 - Log2Floor(x, 100))) % 100
         IN  IF rem < 50 THEN 0 - rem ELSE 100 - rem

\* plausible bug: the band limits are inclusive
ComputeTitInclusive(current_cii, prev) ==
    LET tit == current_cii - prev
    IN  IF tit >= 200 THEN [tit_value |-> tit, tit_residue |-> 0,
                            tit_class |-> "Improving", trend_direction |-> "up"]
        ELSE IF tit <= -200 THEN [tit_value |-> tit, tit_residue |-> 0,
                                  tit_class |-> "Declining", trend_direction |-> "down"]
        ELSE [tit_value |-> tit, tit_residue |-> 0, tit_class |-> "Stable", trend_direction |-> "flat"]
\* _compute_tit(current_cii), with self.previous_cii a whole number (68).
\* tit = current_cii - self.previous_cii is a float subtraction and is not
\* rounded: it is the two-decimal number tit_value (hundredths) plus
\* tit_residue, the representation error of current_cii (exact for indices
\* of 32 and more, whose difference from a whole number is representable).
\* The comparisons with 2 and -2 are made on that float.
ComputeTit(current_cii, prev) ==
    LET tit == current_cii - prev
        residue == FloatResidue(current_cii)
        above == tit > 200 \/ (tit = 200 /\ residue > 0)
        below == tit < -200 \/ (tit = -200 /\ residue < 0)
    IN  IF above THEN [tit_value |-> tit, tit_residue |-> residue,
                       tit_class |-> "Improving", trend_direction |-> "up"]
        ELSE IF below THEN [tit_value |-> tit, tit_residue |-> residue,
                            tit_class |-> "Declining", trend_direction |-> "down"]
        ELSE [tit_value |-> tit, tit_residue |-> residue,
              tit_class |-> "Stable", trend_direction |-> "flat"]

\* str.lower() of the three class labels
Lower(label) ==
    CASE label = "Improving" -> "improving"
      [] label = "Declining" -> "declining"
      [] label = "Stable" -> "stable"
      [] OTHER -> label

\* _build_cycle_context()
BuildCycleContext ==
    [current_phase |-> "bullish",
     phase_confidence |-> "high",
     cycle_confidence_score |-> 85,
     cycle_alignment_score |-> 78,
     cycle_alignment_class |-> "Strongly-Cyclical",
     interpretation |-> "Company appears aligned with Pakistan's bullish macro phase (2024-34)."]

ToneNegativeWords == {"loss", "deficit", "impairment", "liability", "uncertain"}
TonePositiveWords == {"growth", "profit", "increase", "expansion", "stability"}

\* _detect_tone(text)
DetectTone(text) ==
    IF ContainsAny(text, ToneNegativeWords) THEN "negative"
    ELSE IF ContainsAny(text, TonePositiveWords) THEN "positive"
    ELSE "neutral"

Max(a, b) == IF a >= b THEN a ELSE b
Min(a, b) == IF a <= b THEN a ELSE b

\* _estimate_ethics_score(raw)
EstimateEthicsScore(raw) ==
    LET text == Get(raw, "text_content", EmptyText)
        s0 == 85
        s1 == IF Contains(text, "qualified opinion") \/ Contains(text, "investigation")
              THEN s0 - 25 ELSE s0
        s2 == IF Contains(text, "adverse audit") \/ Contains(text, "restatement")
              THEN s1 - 35 ELSE s1
    IN  Max(40, Min(s2, 95))

\* the loop of _estimate_risk_score over the news items
RECURSIVE RiskOver(_, _)
RiskOver(news, risk) ==
    IF news = <<>> THEN risk
    ELSE LET n == Head(news)
         IN  RiskOver(Tail(news),
                      IF "default" \in n.title \/ "loss" \in n.summary THEN risk + 15 ELSE risk)

\* plausible bug: the cap at 90 is missing
EstimateRiskScoreUncapped(raw) == RiskOver(Get(raw, "news_rss", <<>>), 50)
\* _estimate_risk_score(raw)
EstimateRiskScore(raw) ==
    LET risk == RiskOver(Get(raw, "news_rss", <<>>), 50)
    IN  IF risk > 90 THEN 90 ELSE risk

ClassifyEthics(val) ==
    IF val >= 80 THEN "ethical" ELSE IF val >= 60 THEN "questionable" ELSE "unethical"

ClassifyRisk(val) ==
    IF val <= 40 THEN "low" ELSE IF val <= 70 THEN "moderate" ELSE "high"

\* _classify_cii(val), val in hundredths
ClassifyCii(val) ==
    IF val >= 8000 THEN "High"
    ELSE IF val >= 6000 THEN "Moderate"
    ELSE IF val >= 4000 THEN "Low"
    ELSE "Critical"

InterpretCii(val) ==
    IF val >= 8000 THEN "Company demonstrates strong ethical-financial integrity."
    ELSE IF val >= 6000 THEN "Company maintains reasonable governance balance with some risk."
    ELSE IF val >= 4000 THEN "Company integrity under strain, governance issues visible."
    ELSE "Severe governance or ethical distress detected."

\* validate(raw_data), with self.previous_cii = prev
Validate(raw, prev) ==
    LET op == Get(raw, "operational_metrics", <<>>)
        tech == Get(raw, "technical_analysis", <<>>)
        cycle == BuildCycleContext
        ethics_score == EstimateEthicsScore(raw)
        risk_score == EstimateRiskScore(raw)
        technical_score == Get(tech, "technical_confidence", 0)
        cycle_score == Get(cycle, "cycle_alignment_score", 50)
        cii == ComputeCii(ethics_score, risk_score, technical_score, cycle_score)
        tit == ComputeTit(cii, prev)
    IN  [company_name |-> Get(raw, "company_name", "Unknown"),
         tone |-> DetectTone(Get(raw, "text_content", EmptyText)),
         tone_confidence |-> 80,
         ethical_flag |-> ClassifyEthics(ethics_score),
         ethical_confidence |-> ethics_score,
         risk_level |-> ClassifyRisk(risk_score),
         risk_confidence |-> risk_score,
         source_authenticity |-> "authentic",
         authenticity_confidence |-> 90,
         summary |-> "Report shows " \o ClassifyEthics(ethics_score) \o " governance and "
                     \o ClassifyRisk(risk_score) \o " risk profile.",
         technical_analysis |-> tech,
         business_cycle_context |-> cycle,
         operational_metrics |-> op,
         composite_integrity_index |->
            [cii_score |-> cii,
             cii_class |-> ClassifyCii(cii),
             calculation_basis |-> "0.35*Ethics + 0.25*(100-Risk) + 0.20*Technical + 0.20*CycleAlign",
             interpretation |-> InterpretCii(cii)],
         temporal_integrity_trend |->
            [cii_previous |-> prev,
             cii_current |-> cii,
             tit_value |-> tit.tit_value,
             tit_class |-> tit.tit_class,
             trend_direction |-> tit.trend_direction,
             observation_period |-> "Q2-Q3 2025",
             interpretation |-> "Integrity trend is " \o Lower(tit.tit_class) \o " quarter-to-quarter."]]

-----------------------------------------------------------------------------
(* agents/judge.py: JudgeAgent.  Accuracies are in thousandths.             *)

\* number of simulated runs in finalize
NSamples == 5

\* floor of the square root
RECURSIVE ISqrtBetween(_, _, _)
ISqrtBetween(n, lo, hi) ==
    IF lo >= hi THEN lo
    ELSE LET mid == (lo + hi + 1) \div 2
         IN  IF mid * mid <= n THEN ISqrtBetween(n, mid, hi) ELSE ISqrtBetween(n, lo, mid - 1)
ISqrt(n) == ISqrtBetween(n, 0, 46340)

\* _simulate_accuracy(verified) for a drawn base: min(1.0, base + ethics/500 - (100 - risk)/500)
SimulateAccuracy(verified, base) ==
    LET risk_penalty == 2 * (100 - Get(verified, "risk_confidence", 50))
        ethics_bonus == 2 * Get(verified, "ethical_confidence", 70)
    IN  Min(1000, base + ethics_bonus - risk_penalty)

\* sum of the scores: the mean is ScoreSum / (1000 * Len)
ScoreSum(scores) == SeqSum(scores)

\* _compute_bias_variance(scores): bias = |mean - 0.9| in units of 1/(1000*n),
\* var = pstdev^2 in units of 1e-8 (0 when there is a single score)
ComputeBiasVariance(scores) ==
    LET n == Len(scores)
        total == ScoreSum(scores)
        dev == [i \in 1..n |-> (n * scores[i] - total) * (n * scores[i] - total)]
        bias == IF total >= 900 * n THEN total - 900 * n ELSE 900 * n - total
        var == IF n > 1 THEN (100 * SeqSum(dev)) \div (n * n * n) ELSE 0
    IN  [bias |-> bias, var |-> var]

\* _compute_confidence_interval(scores): mean in units of 1/(1000*n),
\* width = 1.96 * sqrt(p * (1 - p) / n) in units of 1e-6
ComputeConfidenceInterval(scores) ==
    LET n == Len(scores)
        total == ScoreSum(scores)
    IN  IF n = 0 THEN [mean |-> 0, width |-> 0]
        ELSE [mean |-> total,
              width |-> 196 * ISqrt((100 * total * (1000 * n - total)) \div (n * n * n))]

\* abs(x)
Abs(x) == IF x < 0 THEN 0 - x ELSE x

\* plausible bug: the score is not clamped
ComputeHsUnclamped(bias, var, ci_width, n) ==
    100000000 - ((100000 * Abs(bias)) \div n + 5000 * ISqrt(var) + 100 * ci_width)
\* _compute_hs(bias, var, ci_width): max(0, min(hs, 100)) in units of 1e-6, with
\* bias in units of 1/(1000*n), var >= 0 in 1e-8, ci_width in 1e-6
ComputeHs(bias, var, ci_width, n) ==
    LET hs == 100000000 - ((100000 * Abs(bias)) \div n + 5000 * ISqrt(var) + 100 * ci_width)
    IN  Max(0, Min(hs, 100000000))

\* _interpret_hs(hs), hs in units of 1e-6
InterpretHs(hs) ==
    IF hs >= 80000000 THEN "Low bias and variance; outputs are consistently factual."
    ELSE IF hs >= 60000000 THEN "Minor factual drift; mostly stable grounding."
    ELSE IF hs >= 40000000 THEN "Moderate hallucination risk; cross-verify data."
    ELSE "High hallucination and uncertainty detected."

\* 1000 * (0.5*cii + 0.3*tit + 0.2*cycle), the index and the trend in
\* hundredths, with the defaults of _compute_fpp
FppWeighted(verified) ==
    LET cii == Get(Get(verified, "composite_integrity_index", <<>>), "cii_score", 6000)
        tit == Get(Get(verified, "temporal_integrity_trend", <<>>), "tit_value", 0)
        cycle == Get(Get(verified, "business_cycle_context", <<>>), "cycle_alignment_score", 50)
    IN  5 * cii + 3 * tit + 200 * cycle

\* plausible bug: the band limits are exclusive
ComputeFppExclusive(verified) ==
    LET weighted == FppWeighted(verified)
        band == IF weighted > 75000 THEN [outlook |-> "improving", risk |-> "low", conf |-> 90]
                ELSE IF weighted > 55000 THEN [outlook |-> "stable", risk |-> "moderate", conf |-> 75]
                ELSE [outlook |-> "declining", risk |-> "high", conf |-> 60]
    IN  [outlook |-> band.outlook,
         drivers |-> <<"revenue recovery", "debt reduction", "regulatory support">>,
         forward_risk_level |-> band.risk,
         confidence |-> band.conf,
         interpretation |-> "Outlook is " \o band.outlook \o " with " \o band.risk
                            \o " forward risk and confidence of " \o ToString(band.conf) \o "%."]
\* _compute_fpp(verified): weighted = 0.5*cii + 0.3*tit + 0.2*cycle, compared in thousandths
ComputeFpp(verified) ==
    LET cii == Get(Get(verified, "composite_integrity_index", <<>>), "cii_score", 6000)
        tit == Get(Get(verified, "temporal_integrity_trend", <<>>), "tit_value", 0)
        cycle == Get(Get(verified, "business_cycle_context", <<>>), "cycle_alignment_score", 50)
        weighted == 5 * cii + 3 * tit + 200 * cycle
        band == IF weighted >= 75000 THEN [outlook |-> "improving", risk |-> "low", conf |-> 90]
                ELSE IF weighted >= 55000 THEN [outlook |-> "stable", risk |-> "moderate", conf |-> 75]
                ELSE [outlook |-> "declining", risk |-> "high", conf |-> 60]
    IN  [outlook |-> band.outlook,
         drivers |-> <<"revenue recovery", "debt reduction", "regulatory support">>,
         forward_risk_level |-> band.risk,
         confidence |-> band.conf,
         interpretation |-> "Outlook is " \o band.outlook \o " with " \o band.risk
                            \o " forward risk and confidence of " \o ToString(band.conf) \o "%."]

-----------------------------------------------------------------------------
(* core/feedback.py: HumanFeedbackHandler.aggregate_feedback *)

NoFeedbackYet == [conclusion |-> "No human feedback yet; system output used as-is."]

\* plausible bug: a failed read of the feedback file is not caught
AggregateFeedbackUncaught(company_name, feedback) ==
    IF feedback.outcome = "error" THEN Exception ELSE NoFeedbackYet
\* aggregate_feedback(company_name); `feedback` is the outcome of reading the
\* company's feedback file: "missing", "empty", "error" (unreadable) or "rated"
\* with the average score in tenths
AggregateFeedback(company_name, feedback) ==
    CASE feedback.outcome = "missing" -> NoFeedbackYet
      [] feedback.outcome = "empty" -> NoFeedbackYet
      [] feedback.outcome = "error" -> [conclusion |-> "Error reading feedback data."]
      [] OTHER ->
            LET sentiment == IF feedback.avg > 700 THEN "positive"
                             ELSE IF feedback.avg > 500 THEN "neutral" ELSE "negative"
            IN  [conclusion |-> "Human reviewers rated model as " \o sentiment
                                \o " (avg " \o ToString(feedback.avg) \o " tenths)."]

-----------------------------------------------------------------------------
(* JudgeAgent.finalize *)

\* finalize(verified) for the drawn bases and the feedback outcome; the result
\* is Exception when the feedback aggregation raises
Finalize(verified, bases, feedback) ==
    LET factual_scores == [i \in 1..Len(bases) |-> SimulateAccuracy(verified, bases[i])]
        n == Len(factual_scores)
        bv == ComputeBiasVariance(factual_scores)
        ci == ComputeConfidenceInterval(factual_scores)
        hallucination_score == ComputeHs(bv.bias, bv.var, ci.width, n)
        company_name == Get(verified, "company_name", "Unknown")
        feedback_summary == AggregateFeedback(company_name, feedback)
    IN  IF IsException(feedback_summary) THEN Exception
        ELSE Union2(verified,
                [future_performance_perspective |-> ComputeFpp(verified),
                 hallucination_metrics |->
                    [bias |-> RoundDiv(bv.bias, n),
                     variance |-> RoundDiv(bv.var, 100000),
                     confidence_interval |-> [mean |-> RoundDiv(ci.mean, 10 * n),
                                              width |-> RoundDiv(ci.width, 10000)],
                     distribution_shape |-> IF bv.var < 2000000 THEN "near-normal" ELSE "skewed",
                     hallucination_score |-> RoundDiv(hallucination_score, 10000),
                     interpretation |-> InterpretHs(hallucination_score)],
                 human_feedback |-> feedback_summary])

-----------------------------------------------------------------------------
(* core/metrics.py: push_metrics.  `gauges` maps a company label to the five *)
(* gauge values; an unset gauge is None.                                    *)

GaugeNames == <<"cii", "ocf_conf", "risk_conf", "fpp_conf", "hs">>
UnsetGauges == [g \in {GaugeNames[i] : i \in 1..Len(GaugeNames)} |-> None]

HasMetricKeys(data) ==
    /\ "composite_integrity_index" \in DOMAIN data
    /\ "cii_score" \in DOMAIN data.composite_integrity_index
    /\ "operational_metrics" \in DOMAIN data
    /\ "operational_cash_flow" \in DOMAIN data.operational_metrics
    /\ "ocf_confidence" \in DOMAIN data.operational_metrics.operational_cash_flow
    /\ "risk_confidence" \in DOMAIN data
    /\ "future_performance_perspective" \in DOMAIN data
    /\ "confidence" \in DOMAIN data.future_performance_perspective
    /\ "hallucination_metrics" \in DOMAIN data
    /\ "hallucination_score" \in DOMAIN data.hallucination_metrics

\* the values read at lines 68-72, in the order the gauges are set
MetricValues(data) ==
    <<data.composite_integrity_index.cii_score,
      data.operational_metrics.operational_cash_flow.ocf_confidence,
      data.risk_confidence,
      data.future_performance_perspective.confidence,
      data.hallucination_metrics.hallucination_score>>

\* the gauges of `company` after the first `done` of the five sets succeeded
GaugesAfter(gauges, company, data, done) ==
    LET values == MetricValues(data)
    IN  [gauges EXCEPT ![company] =
            [g \in DOMAIN UnsetGauges |->
                LET i == CHOOSE j \in 1..Len(GaugeNames) : GaugeNames[j] = g
                IN  IF i <= done THEN Some(values[i]) ELSE gauges[company][g]]]

\* plausible bug: the export rewrites the record it is given
PushMetricsAltering(company, data, gauges, sink) ==
    [gauges |-> gauges, data |-> [data EXCEPT !.risk_confidence = 0], raised |-> FALSE]
\* push_metrics(company, data); `sink` is the number of gauge updates that
\* succeed before one raises (5: all of them).  Returns the gauges, the record
\* (passed by reference, left as it was) and whether the call raised.
PushMetrics(company, data, gauges, sink) ==
    IF ~HasMetricKeys(data)
    THEN [gauges |-> gauges, data |-> data, raised |-> FALSE]
    ELSE [gauges |-> GaugesAfter(gauges, company, data, Min(sink, Len(GaugeNames))),
          data |-> data, raised |-> FALSE]

-----------------------------------------------------------------------------
(* data/neo4j_integration.py: Neo4jClient.  `graph` maps a company to the   *)
(* attributes of its node, None when there is no node.                      *)

NodeOf(data) ==
    [tone |-> data.tone,
     ethics |-> data.ethical_flag,
     risk |-> data.risk_level,
     CII |-> data.composite_integrity_index.cii_score,
     TIT |-> data.temporal_integrity_trend.tit_value,
     OCF |-> data.operational_metrics.operational_cash_flow.ocf_value,
     GME |-> data.operational_metrics.gross_margin_effect.gross_margin_percent,
     FPP |-> data.future_performance_perspective.outlook,
     HS |-> data.hallucination_metrics.hallucination_score]

\* Neo4jClient(); store_company_analysis(data); close().  `db` is the outcome:
\* "no_driver" (the driver could not be created), "stored", "insert_failed"
\* (the session raised), "close_failed" (the node was written, close() raised)
StoreCompanyAnalysis(data, graph, db) ==
    IF db \in {"stored", "close_failed"}
    THEN [graph |-> [graph EXCEPT ![data.company_name] = Some(NodeOf(data))],
          data |-> data, raised |-> (db = "close_failed")]
    ELSE [graph |-> graph, data |-> data, raised |-> FALSE]

-----------------------------------------------------------------------------
(* Inputs of run_analysis and outcomes of its collaborators *)

\* number of news entries a feed read returns at most
MaxNews == 1
\* the drawn base accuracies are 0.80 + k * 0.15 / BaseGrid, k in 0..BaseGrid
BaseGrid == 1

Filenames == {<<"hascol", "pdf">>, <<>>}

MarginTable == <<[gross_margin |-> TRUE, nums |-> <<800, 1400>>],
                 [gross_margin |-> FALSE, nums |-> <<300>>]>>

\* sample reports: text phrases (inside / beyond the first 3000 characters) and tables
Files ==
    {[text |-> EmptyText, tables |-> <<>>],
     [text |-> Text({"loss"}, {}), tables |-> <<MarginTable>>],
     [text |-> Text({"growth", "investigation"}, {"restatement"}), tables |-> <<>>],
     [text |-> Text({"operating cash flow: 12.50", "gross margin: 15"}, {}), tables |-> <<>>],
     [text |-> Text({"outflow"}, {"gross margin: 8"}), tables |-> <<MarginTable>>]}

PdfOutcomes == {"ok", "tables_failed", "text_failed"}

PageOutcomes ==
    {[ok |-> FALSE, words |-> {}], [ok |-> TRUE, words |-> {"buy"}], [ok |-> TRUE, words |-> {}]}

\* keywords a matched entry can carry in its title and summary
Articles ==
    {[title |-> {}, summary |-> {}],
     [title |-> {"default"}, summary |-> {}],
     [title |-> {}, summary |-> {"loss"}],
     [title |-> {"loss"}, summary |-> {"default"}]}

RECURSIVE SeqsUpTo(_, _)
SeqsUpTo(S, n) ==
    IF n = 0 THEN {<<>>}
    ELSE LET shorter == SeqsUpTo(S, n - 1)
         IN  shorter \cup {Append(q, x) : q \in {r \in shorter : Len(r) = n - 1}, x \in S}

FeedOutcomes ==
    {[ok |-> TRUE, entries |-> e, message |-> {}] : e \in SeqsUpTo(Articles, MaxNews)}
    \cup {[ok |-> FALSE, entries |-> <<>>, message |-> m] : m \in {{}, {"loss"}}}

Environments ==
    {[pdf |-> a, page |-> b, feed |-> c] : a \in PdfOutcomes, b \in PageOutcomes, c \in FeedOutcomes}

\* random.uniform(0.80, 0.95), in thousandths, on a grid
BaseValues == {800 + (150 * k) \div BaseGrid : k \in 0..BaseGrid}

\* the NSamples draws; the statistics are symmetric in the draws, so the
\* draws are listed in non-decreasing order
BaseDraws ==
    {b \in [1..NSamples -> BaseValues] : \A i \in 1..(NSamples - 1) : b[i] <= b[i + 1]}

FeedbackOutcomes ==
    {[outcome |-> "missing", avg |-> 0], [outcome |-> "empty", avg |-> 0],
     [outcome |-> "error", avg |-> 0], [outcome |-> "rated", avg |-> 725]}

\* how many of the five gauge updates succeed
SinkOutcomes == {0, 3, 5}

DbOutcomes == {"no_driver", "stored", "insert_failed", "close_failed"}

Companies == {"HASCOL", "Unknown Company", "Unknown"}

\* a local that holds nothing (not yet assigned, or no longer read)
Unset == <<>>

-----------------------------------------------------------------------------
(* The harnesses that a specification does not exercise stay idle. *)

MergeIdle ==
    /\ m_op = "off" /\ primary = Unset /\ secondary = Unset /\ merged = Unset
    /\ gpt_json = Unset /\ local_json = Unset /\ m_called = FALSE

RunIdle ==
    /\ pc = "off" /\ run_filename = Unset /\ file_bytes = Unset /\ run_env = Unset
    /\ run_plan = Unset /\ raw_data = Unset /\ run_verified = Unset /\ final_json = Unset
    /\ returned = Unset /\ stages = <<>> /\ previous_cii = BootstrapPreviousCii
    /\ prom_gauges = Unset /\ neo_graph = Unset

CiiIdle ==
    /\ cii_scores = Unset /\ cii_result = Unset /\ tit_current = Unset
    /\ tit_result = Unset /\ v_raw = Unset /\ v_verified = Unset
    /\ vf_result = Unset /\ vf_report = Unset

RiskIdle ==
    /\ r_data = Unset /\ r_bias = Unset /\ r_ratios = Unset /\ r_risk = Unset
    /\ r_scores = Unset /\ r_compare = Unset

JudgeIdle ==
    /\ hs_args = Unset /\ hs_value = Unset /\ j_verified = Unset
    /\ j_bases = Unset /\ j_final = Unset

HistIdle == history = <<>>

PairIdle == inv = Unset /\ rng_seed = Unset /\ rng_drawn = 0

HttpIdle ==
    /\ http_pc = "off" /\ http_request = Unset /\ http_handled = Unset /\ http_answer = Unset

-----------------------------------------------------------------------------
(* agents/lawyer_ai.py: LawyerAIOrchestrator.run_analysis(file_bytes, filename) *)

\* a fresh orchestrator, called with a file and its name
Init ==
    /\ MergeIdle /\ CiiIdle /\ RiskIdle /\ JudgeIdle /\ HistIdle /\ PairIdle /\ HttpIdle
    /\ pc = "start"
    /\ run_filename \in Filenames
    /\ file_bytes \in Files
    /\ run_env = Unset /\ run_plan = Unset /\ raw_data = Unset /\ run_verified = Unset
    /\ final_json = Unset /\ returned = Unset
    /\ stages = <<>>
    /\ previous_cii = BootstrapPreviousCii
    /\ prom_gauges = [c \in Companies |-> UnsetGauges]
    /\ neo_graph = [c \in Companies |-> None]

\* plan = self.planner.create_plan(filename)
RunPlan ==
    /\ pc = "start"
    /\ run_plan' = CreatePlan(run_filename)
    /\ stages' = Append(stages, "plan")
    /\ pc' = "planned"
    /\ UNCHANGED <<run_filename, file_bytes, run_env, raw_data, run_verified, final_json,
                   returned, previous_cii, prom_gauges, neo_graph>>

\* raw_data = self.executor.execute(file_bytes, plan)
RunExecute ==
    /\ pc = "planned"
    /\ \E e \in Environments :
          /\ run_env' = e
          /\ raw_data' = Execute(file_bytes, run_plan, e)
    /\ stages' = Append(stages, "execute")
    /\ pc' = "executed"
    /\ UNCHANGED <<run_filename, file_bytes, run_plan, run_verified, final_json,
                   returned, previous_cii, prom_gauges, neo_graph>>

\* verified = self.verifier.validate(raw_data); the arguments, the plan and the
\* collaborators' outcomes are not read after this stage
RunVerify ==
    /\ pc = "executed"
    /\ run_verified' = Validate(raw_data, previous_cii)
    /\ stages' = Append(stages, "verify")
    /\ pc' = "verified"
    /\ run_filename' = Unset /\ file_bytes' = Unset /\ run_env' = Unset /\ run_plan' = Unset
    /\ UNCHANGED <<raw_data, final_json, returned, previous_cii, prom_gauges, neo_graph>>

\* final_json = self.judge.finalize(verified)
RunJudge ==
    /\ pc = "verified"
    /\ \E bases \in BaseDraws, feedback \in FeedbackOutcomes :
          LET result == Finalize(run_verified, bases, feedback)
          IN  IF IsException(result)
              THEN /\ pc' = "raised"
                   /\ UNCHANGED <<final_json, stages>>
              ELSE /\ final_json' = result
                   /\ stages' = Append(stages, "judge")
                   /\ pc' = "judged"
    /\ raw_data' = Unset
    /\ UNCHANGED <<run_filename, file_bytes, run_env, run_plan, run_verified,
                   returned, previous_cii, prom_gauges, neo_graph>>

\* company = verified.get("company_name", "Unknown"); push_metrics(company, final_json)
RunPushMetrics ==
    /\ pc = "judged"
    /\ \E sink \in SinkOutcomes :
          LET company == Get(run_verified, "company_name", "Unknown")
              result == PushMetrics(company, final_json, prom_gauges, sink)
          IN  /\ prom_gauges' = result.gauges
              /\ final_json' = result.data
              /\ pc' = IF result.raised THEN "raised" ELSE "pushed"
    /\ stages' = Append(stages, "push_metrics")
    /\ UNCHANGED <<run_filename, file_bytes, run_env, run_plan, raw_data, run_verified,
                   returned, previous_cii, neo_graph>>

\* try: Neo4jClient().store_company_analysis(final_json); close()  except: skip
RunStoreGraph ==
    /\ pc = "pushed"
    /\ \E db \in DbOutcomes :
          LET result == StoreCompanyAnalysis(final_json, neo_graph, db)
          IN  /\ neo_graph' = result.graph
              /\ final_json' = result.data
    /\ stages' = Append(stages, "store_graph")
    /\ pc' = "stored"
    /\ UNCHANGED <<run_filename, file_bytes, run_env, run_plan, raw_data, run_verified,
                   returned, previous_cii, prom_gauges>>

\* return final_json
RunReturn ==
    /\ pc = "stored"
    /\ returned' = final_json
    /\ pc' = "returned"
    /\ UNCHANGED <<run_filename, file_bytes, run_env, run_plan, raw_data, run_verified,
                   final_json, stages, previous_cii, prom_gauges, neo_graph>>

RunAnalysis ==
    \/ RunPlan \/ RunExecute \/ RunVerify \/ RunJudge
    \/ RunPushMetrics \/ RunStoreGraph \/ RunReturn

Next == RunAnalysis /\ UNCHANGED <<mergeVars, ciiVars, riskVars, judgeVars, histVars, pairVars, httpVars>>

Spec == Init /\ [][Next]_vars

-----------------------------------------------------------------------------
(* Properties of run_analysis and of the executor *)

StageOrder == <<"plan", "execute", "verify", "judge", "push_metrics", "store_graph">>

IsJudgedRecord(r) ==
    /\ \A k \in DOMAIN run_verified : k \in DOMAIN r /\ r[k] = run_verified[k]
    /\ "future_performance_perspective" \in DOMAIN r
    /\ "hallucination_metrics" \in DOMAIN r

\* C1: run_analysis never raises and, whatever its collaborators did (PDF
\* extraction, technical fetch, news fetch, feedback read, metrics push,
\* graph write), the record it returns has every verified field plus
\* future_performance_perspective and hallucination_metrics.
RunAnalysisAlwaysReturns ==
    /\ pc # "raised"
    /\ (pc = "returned") => IsJudgedRecord(returned)

\* a run returned although the technical fetch, the feedback read, the metrics
\* push and the graph write had all failed
ReturnedDespiteFailures ==
    /\ pc = "returned"
    /\ returned.technical_analysis.technical_confidence = 0
    /\ returned.human_feedback.conclusion = "Error reading feedback data."
    /\ prom_gauges[returned.company_name]["cii"] = None
    /\ neo_graph[returned.company_name] = None

\* the data each stage hands to the next
StageDataFlow ==
    /\ (pc \in {"planned", "executed"}) =>
          \A i \in 1..Len(run_plan) : run_plan[i].content = run_filename
    /\ (pc = "executed") =>
          /\ raw_data.company_name = CompanyNameOf(run_plan)
          /\ raw_data.text_content.head \subseteq file_bytes.text.head
    /\ (pc = "verified") =>
          /\ run_verified.company_name = raw_data.company_name
          /\ run_verified.technical_analysis = raw_data.technical_analysis
          /\ run_verified.operational_metrics = raw_data.operational_metrics
    /\ (pc \in {"judged", "pushed", "stored", "returned"}) =>
          \A k \in DOMAIN run_verified : final_json[k] = run_verified[k]

StagesInOrder ==
    /\ Len(stages) <= Len(StageOrder)
    /\ stages = SubSeq(StageOrder, 1, Len(stages))
    /\ (pc = "returned") => stages = StageOrder
    /\ (final_json # Unset) <=> (Len(stages) >= 4)

\* a step that exports metrics or writes the graph
ExportsOnlyAfterJudge ==
    /\ (prom_gauges' # prom_gauges \/ neo_graph' # neo_graph) =>
          (Len(stages) >= 4 /\ final_json # Unset)
    /\ (final_json # Unset) => final_json' = final_json
    /\ (pc' = "returned") => returned' = final_json

\* C2: the stages run once each in the order plan, execute, verify, judge, each
\* on the output of the one before; the metrics export and the graph write
\* come only after the judge produced the final record, and the record that
\* is returned is the judge's, unaltered.
StagesOnceInOrder == [](StagesInOrder /\ StageDataFlow) /\ [][ExportsOnlyAfterJudge]_vars

\* a complete run in which both exports took effect
ReturnedAfterExports ==
    /\ pc = "returned"
    /\ stages = StageOrder
    /\ prom_gauges[returned.company_name]["hs"] # None
    /\ neo_graph[returned.company_name] # None

\* C3: when the technical fetch fails, execute still returns: the
\* technical_analysis sub-record is the fallback, and the other four
\* sub-records are what they are when the fetch succeeds.
ExecuteSurvivesTechnicalFailure ==
    (pc = "executed" /\ ~run_env.page.ok) =>
        /\ DOMAIN raw_data = {"company_name", "text_content", "operational_metrics",
                              "technical_analysis", "news_rss"}
        /\ raw_data.technical_analysis.trend_summary = "not available"
        /\ raw_data.technical_analysis.data_link = "not available"
        /\ raw_data.technical_analysis.rsi_14_last_10_days = <<>>
        /\ raw_data.technical_analysis.ma_200 = None
        /\ raw_data.technical_analysis.technical_confidence = 0
        /\ \A page \in PageOutcomes :
              page.ok =>
                 LET other == Execute(file_bytes, run_plan, [run_env EXCEPT !.page = page])
                 IN  /\ other.technical_analysis.technical_confidence # 0
                     /\ other.company_name = raw_data.company_name
                     /\ other.text_content = raw_data.text_content
                     /\ other.operational_metrics = raw_data.operational_metrics
                     /\ other.news_rss = raw_data.news_rss

\* the technical fetch failed while the report and the news were read
TechnicalFailureAlone ==
    /\ pc = "executed"
    /\ ~run_env.page.ok
    /\ run_env.pdf = "ok" /\ run_env.feed.ok
    /\ raw_data.operational_metrics.operational_cash_flow.ocf_confidence = 90
    /\ raw_data.news_rss[1].kind = "article"

\* C4 (as stated): when the news fetch fails, news_rss is the empty list.
NewsFailureGivesEmptyList ==
    (pc = "executed" /\ ~run_env.feed.ok) => raw_data.news_rss = <<>>

\* What the code does instead: NewsRSSFeed.fetch catches the failure itself
\* and returns one "News retrieval error" item, so news_rss is never empty.
NewsFailureGivesErrorItem ==
    (pc = "executed") =>
        /\ raw_data.news_rss # <<>>
        /\ ~run_env.feed.ok =>
              /\ Len(raw_data.news_rss) = 1
              /\ raw_data.news_rss[1].kind = "News retrieval error"

NewsFetchFailed == pc = "executed" /\ ~run_env.feed.ok

-----------------------------------------------------------------------------
(* Inputs of _merge_json: pairs of records over the fields the merger treats *)
(* differently.  Confidences are multiples of 0.5, so that every mean is a   *)
(* multiple of 0.25 and its rounding is exact.                               *)

\* a pair of records mentions at most MaxKeys distinct top-level fields
MaxKeys == 2

scalar_fields == {"tone", "risk_level"}

MergeKeys == scalar_fields \cup confidence_fields \cup nested_fields \cup weighted_fields

IndexA ==
    Dict([k \in {"cii_score", "detail"} |->
            IF k = "cii_score" THEN Num(7385) ELSE Dict(KV("ethics", Num(85)))])
IndexB ==
    Dict([k \in {"cii_score", "cii_class", "detail"} |->
            CASE k = "cii_score" -> Num(6000)
              [] k = "cii_class" -> Str("Moderate")
              [] OTHER -> Dict(KV("risk", Num(50)))])

FieldValues(k) ==
    CASE k = "tone" -> {Str("positive"), Str("negative"), NotAvailable}
      [] k = "risk_level" -> {Str("moderate"), NotAvailable}
      [] k = "tone_confidence" -> {Num(800), Num(700), Num(705), Str("high")}
      [] k \in confidence_fields -> {Num(800), Num(705)}
      [] k = "composite_integrity_index" -> {IndexA, IndexB, NotAvailable}
      [] k \in nested_fields -> {IndexA, IndexB}
      [] OTHER -> {Dict(KV("source", Str("TradingView"))), Dict(KV("source", Str("GPT")))}

\* the records with exactly the fields S
RECURSIVE DictsOver(_)
DictsOver(S) ==
    IF S = {} THEN {EmptyDict}
    ELSE LET k == CHOOSE x \in S : TRUE
         IN  {Union2(KV(k, v), d) : v \in FieldValues(k), d \in DictsOver(S \ {k})}

\* the ways to split at most MaxKeys fields between the two records
KeySplits ==
    UNION {{split \in (SUBSET K) \X (SUBSET K) : split[1] \cup split[2] = K} :
            K \in {x \in SUBSET MergeKeys : Cardinality(x) <= MaxKeys}}

-----------------------------------------------------------------------------
(* ReconciliationMerger harness: _merge_json called on a drawn pair, and the *)
(* analyze_* entry points of ManagementAnalyzer.                             *)

InitMerge ==
    /\ RunIdle /\ CiiIdle /\ RiskIdle /\ JudgeIdle /\ HistIdle /\ PairIdle /\ HttpIdle
    /\ merged = Unset /\ gpt_json = Unset /\ local_json = Unset /\ m_called = FALSE
    /\ \/ /\ m_op = "init"
          /\ \E split \in KeySplits :
                /\ primary \in DictsOver(split[1])
                /\ secondary \in DictsOver(split[2])
       \/ /\ m_op = "idle"
          /\ primary = Unset /\ secondary = Unset

\* merged = _merge_json(primary, secondary)
Merge ==
    /\ m_op = "init"
    /\ merged' = MergeJson(primary, secondary)
    /\ m_op' = "merge"
    /\ m_called' = TRUE
    /\ UNCHANGED <<primary, secondary, gpt_json, local_json>>

-----------------------------------------------------------------------------
(* ManagementAnalyzer._analyze_text and the records the GPT client returns *)

\* the judged record as the JSON the merger sees (the fields the merger and
\* its callers read); confidences in tenths, CII / TIT in hundredths
ToJson(final) ==
    [company_name |-> Str(final.company_name),
     tone |-> Str(final.tone),
     tone_confidence |-> Num(10 * final.tone_confidence),
     ethical_flag |-> Str(final.ethical_flag),
     ethical_confidence |-> Num(10 * final.ethical_confidence),
     risk_level |-> Str(final.risk_level),
     risk_confidence |-> Num(10 * final.risk_confidence),
     source_authenticity |-> Str(final.source_authenticity),
     authenticity_confidence |-> Num(10 * final.authenticity_confidence),
     technical_analysis |->
        Dict([source |-> Str(final.technical_analysis.source),
              trend_summary |-> Str(final.technical_analysis.trend_summary),
              data_link |-> Str(final.technical_analysis.data_link),
              technical_confidence |-> Num(10 * final.technical_analysis.technical_confidence)]),
     composite_integrity_index |->
        Dict([cii_score |-> Num(final.composite_integrity_index.cii_score),
              cii_class |-> Str(final.composite_integrity_index.cii_class)]),
     temporal_integrity_trend |->
        Dict([tit_value |-> Num(final.temporal_integrity_trend.tit_value),
              tit_class |-> Str(final.temporal_integrity_trend.tit_class)]),
     operational_metrics |->
        Dict([operational_cash_flow |->
                Dict([ocf_trend |-> Str(final.operational_metrics.operational_cash_flow.ocf_trend),
                      ocf_confidence |->
                        Num(10 * final.operational_metrics.operational_cash_flow.ocf_confidence)]),
              gross_margin_effect |->
                Dict([gme_trend |-> Str(final.operational_metrics.gross_margin_effect.gme_trend),
                      gme_confidence |->
                        Num(10 * final.operational_metrics.gross_margin_effect.gme_confidence)])]),
     future_performance_perspective |->
        Dict([outlook |-> Str(final.future_performance_perspective.outlook),
              confidence |-> Num(10 * final.future_performance_perspective.confidence)]),
     hallucination_metrics |->
        Dict([hallucination_score |-> Num(final.hallucination_metrics.hallucination_score)]),
     human_feedback |-> Dict([conclusion |-> Str(final.human_feedback.conclusion)])]

\* the record _analyze_text returns when a stage raises
LocalError(company) ==
    [k \in {"error", "company"} |-> IF k = "error" THEN Str("text analysis failed") ELSE Str(company)]

\* _analyze_text(company, text).  The executor is handed the UTF-8 bytes of the
\* text, which are not a PDF (env.pdf = "text_failed"); company_name and
\* text_content are then overwritten.  `agents` is FALSE when building the
\* agents raises.
AnalyzeText(company, text, agents, env, bases, feedback) ==
    IF ~agents THEN LocalError(company)
    ELSE LET plan == CreatePlan(<<company>>)
             executed == Execute([text |-> text, tables |-> <<>>], plan, env)
             raw == [executed EXCEPT !.company_name = company, !.text_content = text]
             verified == Validate(raw, BootstrapPreviousCii)
             final == Finalize(verified, bases, feedback)
         IN  IF IsException(final) THEN LocalError(company) ELSE ToJson(final)

\* what the GPT client can answer
GptFull ==
    [k \in {"company_name", "tone", "tone_confidence", "risk_level", "technical_analysis",
            "management_analysis"} |->
        CASE k = "company_name" -> Str("HASCOL")
          [] k = "tone" -> Str("positive")
          [] k = "tone_confidence" -> Num(705)
          [] k = "risk_level" -> Str("high")
          [] k = "technical_analysis" ->
                Dict([source |-> Str("GPT"), trend_summary |-> Str("Bearish momentum detected"),
                      technical_confidence |-> Num(650)])
          [] OTHER -> Dict([governance |-> Str("weak board oversight")])]

GptNoTechnical == [k \in DOMAIN GptFull \ {"technical_analysis"} |-> GptFull[k]]

GptError == KV("error", Str("GPT analysis failed"))

\* what GPTClient returns when the answer is not JSON
GptParseError ==
    [k \in {"error", "raw"} |->
        IF k = "error" THEN Str("GPT JSON parse error") ELSE Str("not json")]

\* GPTClient.analyze_text / an injected client: a record, or an exception
GptOutcomes ==
    {Returned(r) : r \in {GptFull, GptNoTechnical, GptError, GptParseError, EmptyDict}}
       \cup {Raised}

\* GPTClient.analyze_web marks the record it returns
GptWeb(r) == Union2(r, KV("source", Str("Custom GPT (two-phase)")))

\* texts handed to _analyze_text; the last one stands for "[PDF Parsing Error]: ..."
AnalysisTexts == {Text({"loss"}, {}), Text({"growth"}, {"restatement"}), EmptyText}

AnalysisEnvironments ==
    {[pdf |-> "text_failed", page |-> b, feed |-> c] :
        b \in PageOutcomes,
        c \in {[ok |-> TRUE, entries |-> <<>>, message |-> {}],
               [ok |-> TRUE, entries |-> <<[title |-> {"default"}, summary |-> {}]>>, message |-> {}]}}

AnalysisFeedback == {[outcome |-> "missing", avg |-> 0], [outcome |-> "rated", avg |-> 725]}

\* draws in which the simulated runs agree
AnalysisDraws == {b \in BaseDraws : b[1] = b[NSamples]}

\* the records _analyze_text can return for a text
LocalRecords(company, text) ==
    {AnalyzeText(company, text, agents, env, bases, feedback) :
        agents \in BOOLEAN, env \in AnalysisEnvironments,
        bases \in AnalysisDraws, feedback \in AnalysisFeedback}

-----------------------------------------------------------------------------
(* ManagementAnalyzer.analyze_from_pdf / analyze_from_pdf_bytes / analyze_from_web *)

\* the common body of analyze_from_pdf and analyze_from_pdf_bytes: the local
\* record is the first argument of the merge, the GPT record the second
HybridPdfAnalysis(op) ==
    /\ m_op = "idle"
    /\ \E text \in AnalysisTexts :
        \E local \in LocalRecords("HASCOL", text), use_hybrid \in BOOLEAN, has_gpt \in BOOLEAN,
           gpt \in GptOutcomes :
          /\ local_json' = local
          /\ IF ~use_hybrid \/ ~has_gpt
             THEN /\ merged' = local
                  /\ gpt_json' = Unset /\ primary' = Unset /\ secondary' = Unset
                  /\ m_called' = FALSE
             ELSE IF gpt.raised
             THEN /\ merged' = local
                  /\ gpt_json' = Unset /\ primary' = Unset /\ secondary' = Unset
                  /\ m_called' = FALSE
             ELSE /\ gpt_json' = gpt.value
                  /\ primary' = SafeLoad(local)
                  /\ secondary' = SafeLoad(gpt.value)
                  /\ merged' = MergeJson(SafeLoad(local), SafeLoad(gpt.value))
                  /\ m_called' = TRUE
    /\ m_op' = op

AnalyzeFromPdf == HybridPdfAnalysis("pdf")

AnalyzeFromPdfBytes == HybridPdfAnalysis("pdf_bytes")

\* outcome of WebSearch.search: it raised, found nothing, or found pages
SearchOutcomes == {"raised", "none", "some"}

\* analyze_from_web(company): the GPT record is the first argument of the merge
AnalyzeFromWeb ==
    /\ m_op = "idle"
    /\ \E text \in AnalysisTexts :
        \E local \in LocalRecords("HASCOL", text), use_hybrid \in BOOLEAN, has_gpt \in BOOLEAN,
           use_gpt_for_web \in BOOLEAN, use_local_web \in BOOLEAN, gpt \in GptOutcomes,
           hits \in SearchOutcomes :
          LET g == IF use_gpt_for_web /\ has_gpt /\ ~gpt.raised
                   THEN GptWeb(gpt.value) ELSE EmptyDict
              l == IF use_local_web /\ hits = "some" THEN local ELSE EmptyDict
          IN  /\ gpt_json' = g
              /\ local_json' = l
              /\ IF use_hybrid
                 THEN /\ primary' = SafeLoad(g)
                      /\ secondary' = SafeLoad(l)
                      /\ merged' = MergeJson(SafeLoad(g), SafeLoad(l))
                      /\ m_called' = TRUE
                 ELSE /\ primary' = Unset /\ secondary' = Unset
                      /\ merged' = IF DOMAIN g # {} THEN g ELSE l
                      /\ m_called' = FALSE
    /\ m_op' = "web"

NextMerge ==
    /\ Merge \/ AnalyzeFromPdf \/ AnalyzeFromPdfBytes \/ AnalyzeFromWeb
    /\ UNCHANGED <<runVars, ciiVars, riskVars, judgeVars, histVars, pairVars, httpVars>>

SpecMerge == InitMerge /\ [][NextMerge]_vars

-----------------------------------------------------------------------------
(* Properties of _merge_json *)

\* Scenario D of the specification
ScenarioDPrimary == KV("tone_confidence", Num(800))
ScenarioDSecondary ==
    [k \in {"tone_confidence", "risk_level"} |->
        IF k = "tone_confidence" THEN Num(700) ELSE Str("moderate")]

\* C5: every top-level field that secondary has and primary lacks is in the
\* merged record with secondary's value; in scenario D the merged record is
\* {tone_confidence: 75.0, risk_level: "moderate"}.
MergeFillsFromSecondary ==
    m_called =>
        /\ \A k \in DOMAIN secondary \ DOMAIN primary :
              k \in DOMAIN merged /\ merged[k] = secondary[k]
        /\ (primary = ScenarioDPrimary /\ secondary = ScenarioDSecondary) =>
              merged = [k \in {"tone_confidence", "risk_level"} |->
                          IF k = "tone_confidence" THEN Num(750) ELSE Str("moderate")]

\* scenario D was merged
ScenarioDMerged ==
    /\ m_op = "merge"
    /\ primary = ScenarioDPrimary /\ secondary = ScenarioDSecondary
    /\ "risk_level" \in DOMAIN merged

\* m (tenths) is (a + b) / 2 rounded to one decimal, for a, b in tenths: the
\* nearest tenth to the mean, the even one when the mean is half-way
IsMeanToOneDecimal(m, a, b) ==
    LET h == 5 * (a + b)      \* the mean in hundredths
    IN  /\ 10 * m - h <= 5 /\ h - 10 * m <= 5
        /\ (10 * m - h = 5 \/ h - 10 * m = 5) => m % 2 = 0

\* C6: a whitelisted confidence that is a number in both records is merged
\* to the mean of the two rounded to one decimal (80 and 70 give 75.0).
MergeAveragesConfidences ==
    m_called =>
        \A k \in confidence_fields \cap DOMAIN primary \cap DOMAIN secondary :
            (IsNumber(primary[k]) /\ IsNumber(secondary[k])) =>
                /\ IsNumber(merged[k])
                /\ IsMeanToOneDecimal(merged[k].v, primary[k].v, secondary[k].v)
                /\ (primary[k] = Num(800) /\ secondary[k] = Num(700)) => merged[k] = Num(750)

\* 80.0 and 70.5 were merged to 75.2, which is neither record's value
ConfidenceAveraged ==
    /\ m_op = "merge"
    /\ "tone_confidence" \in DOMAIN primary \cap DOMAIN secondary
    /\ primary.tone_confidence = Num(800)
    /\ secondary.tone_confidence = Num(705)
    /\ merged.tone_confidence = Num(752)

\* the fields outside the confidence whitelist that hold a scalar in both records
SharedScalars ==
    {k \in (DOMAIN primary \cap DOMAIN secondary) \ confidence_fields :
        ~IsDict(primary[k]) /\ ~IsDict(secondary[k])}

\* C7 (as stated): a scalar field outside the whitelist that both records
\* contain is merged to primary's value unless that is "not available", in
\* which case it is merged to secondary's.
MergeSkipsNotAvailable ==
    m_called =>
        \A k \in SharedScalars :
            merged[k] = IF primary[k] # NotAvailable THEN primary[k] ELSE secondary[k]

\* C7 (amended): a scalar field outside the whitelist that both records
\* contain is merged to primary's value, also when that is "not available".
MergePrimaryWinsScalars ==
    m_called => \A k \in SharedScalars : merged[k] = primary[k]

\* primary's "not available" tone replaced secondary's "positive"
NotAvailableOverrides ==
    /\ m_op = "merge"
    /\ "tone" \in DOMAIN primary \cap DOMAIN secondary
    /\ primary.tone = NotAvailable
    /\ secondary.tone = Str("positive")
    /\ merged.tone = NotAvailable

\* C8: a nested object that is a dictionary in both records is merged to the
\* union of the first-level keys, primary's value for each key primary has
\* and secondary's for the rest; sub-dictionaries are not merged.
MergeNestedShallow ==
    m_called =>
        \A k \in nested_fields \cap DOMAIN primary \cap DOMAIN secondary :
            (IsDict(primary[k]) /\ IsDict(secondary[k])) =>
                /\ IsDict(merged[k])
                /\ DOMAIN merged[k].v = DOMAIN primary[k].v \cup DOMAIN secondary[k].v
                /\ \A j \in DOMAIN merged[k].v :
                      merged[k].v[j] = IF j \in DOMAIN primary[k].v
                                       THEN primary[k].v[j] ELSE secondary[k].v[j]

\* two indexes with different keys and different `detail` sub-dictionaries were merged
NestedMerged ==
    /\ m_op = "merge"
    /\ "composite_integrity_index" \in DOMAIN primary \cap DOMAIN secondary
    /\ primary.composite_integrity_index = IndexA
    /\ secondary.composite_integrity_index = IndexB
    /\ merged.composite_integrity_index.v.cii_class = Str("Moderate")
    /\ merged.composite_integrity_index.v.detail = Dict(KV("ethics", Num(85)))

\* C9 (as stated): in every hybrid merge, when the GPT record has
\* technical_analysis the merged record carries the GPT record's, whichever
\* argument position the GPT record has.
HybridKeepsGptTechnical ==
    (m_op \in {"pdf", "pdf_bytes", "web"} /\ m_called /\ "technical_analysis" \in DOMAIN gpt_json) =>
        merged.technical_analysis = gpt_json.technical_analysis

\* What the code does instead: the merged technical_analysis is the first
\* argument's whenever the first argument has one, so the GPT record's is
\* kept by analyze_from_web and dropped by the two PDF analyses.
HybridTechnicalFollowsPosition ==
    (m_op \in {"pdf", "pdf_bytes", "web"} /\ m_called /\ "technical_analysis" \in DOMAIN primary) =>
        merged.technical_analysis = primary.technical_analysis

\* a hybrid PDF analysis in which the local technical fetch had failed and the
\* GPT record supplied technical_analysis
PdfHybridWithGptTechnical ==
    /\ m_op = "pdf" /\ m_called
    /\ "technical_analysis" \in DOMAIN gpt_json
    /\ "technical_analysis" \in DOMAIN local_json
    /\ local_json.technical_analysis.v.trend_summary = NotAvailable
    /\ merged.technical_analysis = local_json.technical_analysis

-----------------------------------------------------------------------------
(* VerifierAgent scoring harness: _compute_cii and _classify_cii on drawn   *)
(* whole-number scores, for which the weighted sum is exact in hundredths.  *)

\* the drawn scores are the multiples of 100 / GridSteps, and the scenario's
GridSteps == 4

ScoreValues == {(100 * k) \div GridSteps : k \in 0..GridSteps} \cup {50, 78, 80, 85}

\* the drawn current indices, in hundredths: every value within TitWindow
\* hundredths of the bootstrap previous index, and scenario B's 73.85
TitWindow == 210

TitInputs == {BootstrapPreviousCii + d : d \in (0 - TitWindow)..TitWindow} \cup {7385}

\* the drawn raw records carry up to MaxItems news items
MaxItems == 4

\* report texts: the sample reports' and one with every governance keyword
RawTexts ==
    {f.text : f \in Files}
       \cup {Text({"qualified opinion", "adverse audit"}, {"profit"})}

RawTechnicalConfidences == {0, 50, 80, 100}

\* raw records as ExecutorAgent.execute builds them, and one holding the text alone
RawRecords ==
    {[company_name |-> "hascol",
      text_content |-> t,
      operational_metrics |-> ExtractFinancialMetrics(t, <<>>),
      technical_analysis |-> [technical_confidence |-> tc],
      news_rss |-> news] :
        t \in RawTexts, tc \in RawTechnicalConfidences, news \in SeqsUpTo(Articles, MaxItems)}
       \cup {[text_content |-> t] : t \in RawTexts}

\* the fields verify requires, in the order it lists them
RequiredFields == <<"tone", "ethical_flag", "risk_level", "composite_integrity_index">>

\* verify(result): the index is in hundredths
Verify(result) ==
    LET missing == SelectSeq(RequiredFields, LAMBDA k : k \notin DOMAIN result)
        cii_score == Get(Get(result, "composite_integrity_index", <<>>), "cii_score", 0)
        consistency == ~(cii_score < 0 \/ cii_score > 10000)
        verified == Len(missing) = 0 /\ consistency
    IN  [verified |-> verified,
         missing_fields |-> missing,
         notes |-> IF verified
                   THEN [text |-> "All essential fields present and logically consistent.",
                         issues |-> <<>>]
                   ELSE [text |-> "Issues: ", issues |-> missing],
         result |-> result]

\* an analysis result with every required field, and the indices drawn for it
FullResult(cii) ==
    [tone |-> "neutral", ethical_flag |-> "ethical", risk_level |-> "moderate",
     composite_integrity_index |-> cii, summary |-> "Report"]

VerifyIndices ==
    {[cii_score |-> c, cii_class |-> "Moderate"] : c \in {-1, 0, 7385, 10000, 10001}}
       \cup {[cii_class |-> "Moderate"]}

\* results holding any subset of the required fields
VerifyInputs ==
    {[k \in keys \cup {"summary"} |-> FullResult(cii)[k]] :
        keys \in SUBSET {RequiredFields[i] : i \in 1..Len(RequiredFields)},
        cii \in VerifyIndices}

InitCII ==
    /\ MergeIdle /\ RunIdle /\ RiskIdle /\ JudgeIdle /\ HistIdle /\ PairIdle /\ HttpIdle
    /\ cii_result = Unset /\ tit_result = Unset /\ v_verified = Unset /\ vf_report = Unset
    /\ \/ /\ cii_scores \in [ethics : ScoreValues, risk : ScoreValues,
                               technical : ScoreValues, cycle : ScoreValues]
          /\ tit_current = Unset /\ v_raw = Unset /\ vf_result = Unset
       \/ /\ tit_current \in {Some(c) : c \in TitInputs}
          /\ cii_scores = Unset /\ v_raw = Unset /\ vf_result = Unset
       \/ /\ v_raw \in RawRecords
          /\ cii_scores = Unset /\ tit_current = Unset /\ vf_result = Unset
       \/ /\ vf_result \in {Some(r) : r \in VerifyInputs}
          /\ cii_scores = Unset /\ tit_current = Unset /\ v_raw = Unset

\* cii = self._compute_cii(e, r, t, c); cii_class = self._classify_cii(cii)
ComputeIndex ==
    /\ cii_scores # Unset
    /\ cii_result = Unset
    /\ LET cii == ComputeCii(cii_scores.ethics, cii_scores.risk,
                             cii_scores.technical, cii_scores.cycle)
       IN  cii_result' = [cii_score |-> cii, cii_class |-> ClassifyCii(cii)]
    /\ UNCHANGED <<cii_scores, tit_current, tit_result, v_raw, v_verified, vf_result, vf_report>>

\* tit_value, tit_class, direction = self._compute_tit(cii) on a fresh VerifierAgent
ComputeTrend ==
    /\ tit_current # Unset
    /\ tit_result = Unset
    /\ tit_result' = ComputeTit(tit_current[1], previous_cii)
    /\ UNCHANGED <<cii_scores, cii_result, tit_current, v_raw, v_verified, vf_result, vf_report>>

\* verified = VerifierAgent().validate(raw_data)
RunValidate ==
    /\ v_raw # Unset
    /\ v_verified = Unset
    /\ v_verified' = Validate(v_raw, previous_cii)
    /\ UNCHANGED <<cii_scores, cii_result, tit_current, tit_result, v_raw, vf_result, vf_report>>

\* report = VerifierAgent().verify(result)
RunVerifyResult ==
    /\ vf_result # Unset
    /\ vf_report = Unset
    /\ vf_report' = Verify(vf_result[1])
    /\ UNCHANGED <<cii_scores, cii_result, tit_current, tit_result, v_raw, v_verified, vf_result>>

NextCII ==
    /\ ComputeIndex \/ ComputeTrend \/ RunValidate \/ RunVerifyResult
    /\ UNCHANGED <<mergeVars, runVars, riskVars, judgeVars, histVars, pairVars, httpVars>>

SpecCII == InitCII /\ [][NextCII]_vars

ScenarioB == [ethics |-> 85, risk |-> 50, technical |-> 80, cycle |-> 78]

\* C10: for scores in 0..100 the index is 0.35*Ethics + 0.25*(100 - Risk) +
\* 0.20*Technical + 0.20*Cycle to two decimals (in hundredths:
\* 35*E + 25*(100 - R) + 20*T + 20*C); for 85, 50, 80, 78 it is 73.85 and
\* its class is "Moderate".
CiiIsWeightedSum ==
    (cii_result # Unset) =>
        /\ cii_result.cii_score =
              35 * cii_scores.ethics + 25 * (100 - cii_scores.risk)
                + 20 * cii_scores.technical + 20 * cii_scores.cycle
        /\ (cii_scores = ScenarioB) =>
              (cii_result.cii_score = 7385 /\ cii_result.cii_class = "Moderate")

\* scenario B was computed
ScenarioBComputed ==
    /\ cii_scores = ScenarioB
    /\ cii_result # Unset
    /\ cii_result.cii_score = 7385

\* C11: with the other three scores held fixed, the index never falls when
\* Ethics, Technical or CycleAlign is raised and never rises when Risk is
\* raised, over the drawn scores in 0..100.
CiiMonotone ==
    (cii_result # Unset) =>
        \A v \in ScoreValues :
            /\ (v >= cii_scores.ethics) =>
                  ComputeCii(v, cii_scores.risk, cii_scores.technical, cii_scores.cycle)
                     >= cii_result.cii_score
            /\ (v >= cii_scores.technical) =>
                  ComputeCii(cii_scores.ethics, cii_scores.risk, v, cii_scores.cycle)
                     >= cii_result.cii_score
            /\ (v >= cii_scores.cycle) =>
                  ComputeCii(cii_scores.ethics, cii_scores.risk, cii_scores.technical, v)
                     >= cii_result.cii_score
            /\ (v >= cii_scores.risk) =>
                  ComputeCii(cii_scores.ethics, v, cii_scores.technical, cii_scores.cycle)
                     <= cii_result.cii_score

\* an index was computed that raising Risk alone lowers and raising Ethics alone lifts
CiiMovesWithScores ==
    /\ cii_result # Unset
    /\ cii_scores.risk < 100
    /\ cii_scores.ethics < 100
    /\ ComputeCii(cii_scores.ethics, 100, cii_scores.technical, cii_scores.cycle)
          < cii_result.cii_score
    /\ ComputeCii(100, cii_scores.risk, cii_scores.technical, cii_scores.cycle)
          > cii_result.cii_score

ScenarioCComputed ==
    /\ tit_result # Unset
    /\ tit_current = Some(7385)
    /\ tit_result.tit_value = 585
    /\ tit_result.tit_residue = -40

\* C13: every record validate returns, for a technical confidence in 0..100,
\* any text and any list of news items, has its tone, ethics, risk and
\* authenticity confidences in [0,100] and its composite index in [0,100].
VerifiedScoresInRange ==
    (v_verified # Unset) =>
        /\ v_verified.tone_confidence \in 0..100
        /\ v_verified.ethical_confidence \in 0..100
        /\ v_verified.risk_confidence \in 0..100
        /\ v_verified.authenticity_confidence \in 0..100
        /\ v_verified.composite_integrity_index.cii_score >= 0
        /\ v_verified.composite_integrity_index.cii_score <= 10000

\* a record was validated whose four news items all raise the risk (the cap
\* at 90 applied) and whose text holds every governance keyword (the floor
\* at 40 applied)
ValidatedAtTheLimits ==
    /\ v_verified # Unset
    /\ "news_rss" \in DOMAIN v_raw
    /\ Len(v_raw.news_rss) = 4
    /\ RiskOver(v_raw.news_rss, 50) > 100
    /\ v_verified.risk_confidence = 90
    /\ v_verified.ethical_confidence = 40

-----------------------------------------------------------------------------
(* Repeated analyses: one LawyerAIOrchestrator (one VerifierAgent, one     *)
(* Prometheus registry, one Neo4j database) serves several run_analysis    *)
(* calls, each taken here as a single step.                                *)

\* at most MaxAnalyses calls are made
MaxAnalyses == 2

\* the reports analysed: an empty one and the one with governance keywords
HistFiles == {f \in Files : f.tables = <<>> /\ ~ContainsAny(f.text, OcfFigures)}

\* the collaborators' outcomes: the report and the chart page are read, the
\* feed yields one article
HistEnvironments ==
    {[pdf |-> "ok", page |-> p, feed |-> [ok |-> TRUE, entries |-> <<a>>, message |-> {}]] :
        p \in {x \in PageOutcomes : x.ok /\ x.words = {}},
        a \in {x \in Articles : x.summary = {}}}

\* the judge draws the lowest base accuracy every time
HistBases == [i \in 1..NSamples |-> 800]

HistDbOutcomes == {"stored", "insert_failed"}

InitHistory ==
    /\ MergeIdle /\ CiiIdle /\ RiskIdle /\ JudgeIdle /\ PairIdle /\ HttpIdle
    /\ pc = "off" /\ run_filename = Unset /\ file_bytes = Unset /\ run_env = Unset
    /\ run_plan = Unset /\ raw_data = Unset /\ run_verified = Unset /\ final_json = Unset
    /\ returned = Unset /\ stages = <<>>
    /\ previous_cii = BootstrapPreviousCii
    /\ prom_gauges = [c \in Companies |-> UnsetGauges]
    /\ neo_graph = [c \in Companies |-> None]
    /\ history = <<>>

\* one whole run_analysis(file_bytes, filename) call on the same orchestrator:
\* nothing in it assigns self.verifier.previous_cii or reads the graph
AnalyseAgain ==
    /\ Len(history) < MaxAnalyses
    /\ \E filename \in Filenames, file \in HistFiles, e \in HistEnvironments,
          db \in HistDbOutcomes :
          LET plan == CreatePlan(filename)
              raw == Execute(file, plan, e)
              verified == Validate(raw, previous_cii)
              judged == Finalize(verified, HistBases, [outcome |-> "missing", avg |-> 0])
              company == Get(verified, "company_name", "Unknown")
              pushed == PushMetrics(company, judged, prom_gauges, 5)
              stored == StoreCompanyAnalysis(pushed.data, neo_graph, db)
          IN  /\ prom_gauges' = pushed.gauges
              /\ neo_graph' = stored.graph
              /\ history' = Append(history,
                    [company |-> company,
                     cii_previous |-> stored.data.temporal_integrity_trend.cii_previous,
                     cii_current |-> stored.data.temporal_integrity_trend.cii_current,
                     persisted |-> (stored.graph[company] = Some(NodeOf(stored.data))
                                       /\ db = "stored")])
    /\ UNCHANGED <<pc, run_filename, file_bytes, run_env, run_plan, raw_data, run_verified,
                   final_json, returned, stages, previous_cii>>

NextHistory == AnalyseAgain /\ UNCHANGED <<mergeVars, ciiVars, riskVars, judgeVars, pairVars, httpVars>>

SpecHistory == InitHistory /\ [][NextHistory]_vars

\* C14: once an analysis of a subject has completed and been persisted, the
\* next analysis of that subject reports as cii_previous the earlier
\* analysis's cii_current; the bootstrap value 68 is reported only when the
\* subject has no persisted analysis.
PreviousCiiCarriedForward ==
    \A j \in 1..Len(history) :
        LET earlier == {i \in 1..(j - 1) : history[i].company = history[j].company
                                              /\ history[i].persisted}
        IN  IF earlier = {}
            THEN history[j].cii_previous = BootstrapPreviousCii
            ELSE \E i \in earlier :
                    /\ \A k \in earlier : k <= i
                    /\ history[j].cii_previous = history[i].cii_current

\* what the code does: every analysis reports the bootstrap value
PreviousCiiAlwaysBootstrap ==
    /\ previous_cii = BootstrapPreviousCii
    /\ \A j \in 1..Len(history) : history[j].cii_previous = BootstrapPreviousCii

\* a subject was analysed and persisted with an index other than 68, and
\* then analysed again
AnalysedAgainAfterPersisted ==
    /\ Len(history) >= 2
    /\ history[1].persisted
    /\ history[1].cii_current # BootstrapPreviousCii
    /\ history[2].company = history[1].company
    /\ neo_graph[history[1].company] # None

-----------------------------------------------------------------------------
(* agents/risk_analyzer.py: RiskAnalyzer.  Amounts and prices are whole     *)
(* numbers; debt_equity, current_ratio and ethical_bias are in hundredths,  *)
(* volatility and risk_score in thousandths.                                *)

\* self.alpha, self.beta, self.gamma, in hundredths
alpha == 40
beta == 35
gamma == 25

\* prices[-30:]
VolatilityWindow == 30

\* s[-n:]
LastN(s, n) == IF Len(s) <= n THEN s ELSE SubSeq(s, Len(s) - n + 1, Len(s))

\* round(np.std(prices), 3) in thousandths: the population standard deviation
\* sqrt(sum((n*x - total)^2) / n^3), rounded to the nearest thousandth
StdDev(prices) ==
    LET n == Len(prices)
        total == SeqSum(prices)
        dev == SeqSum([i \in 1..n |-> (n * prices[i] - total) * (n * prices[i] - total)])
        cube == n * n * n
        scaled == ((1000 * dev) \div cube) * 1000 + (((1000 * dev) % cube) * 1000) \div cube
        root == ISqrt(scaled)
    IN  IF scaled - root * root > root THEN root + 1 ELSE root

\* the exception a division by zero raises
ZeroDivisionError == Exception

\* compute_ratios(data): the defaults apply to a missing key only, and a
\* denominator of 0 raises ZeroDivisionError
ComputeRatios(data) ==
    LET debt == Get(data, "total_debt", 0)
        equity == Get(data, "total_equity", 1)
        assets == Get(data, "current_assets", 1)
        liabilities == Get(data, "current_liabilities", 1)
        prices == Get(data, "stock_prices", <<>>)
    IN  IF equity = 0 THEN ZeroDivisionError
        ELSE IF liabilities = 0 THEN ZeroDivisionError
        ELSE [debt_equity |-> RoundDiv(100 * debt, equity),
              current_ratio |-> RoundDiv(100 * assets, liabilities),
              volatility |-> IF Len(prices) > 1 THEN StdDev(LastN(prices, VolatilityWindow))
                             ELSE 0]

\* the label of a risk_score in thousandths
RiskLabel(risk_score) ==
    IF risk_score > 700 THEN "High Risk"
    ELSE IF risk_score > 400 THEN "Moderate Risk"
    ELSE "Low Risk"

\* risk_index = alpha*debt_equity - beta*current_ratio + gamma*volatility
\*              + ethical_bias*0.1, in units of 1e-5
RiskIndex(ratios, ethical_bias) ==
    10 * alpha * ratios.debt_equity - 10 * beta * ratios.current_ratio
       + gamma * ratios.volatility + 100 * ethical_bias

\* round(risk_index, 3) in thousandths.  risk_index is a float sum: when its
\* decimal value lies halfway between two thousandths, the float lies just
\* below or just above it and the rounding goes either way.
RoundedRiskIndex(ratios, ethical_bias) ==
    LET risk_index == RiskIndex(ratios, ethical_bias)
    IN  IF risk_index % 100 = 50
        THEN {risk_index \div 100, risk_index \div 100 + 1}
        ELSE {RoundDiv(risk_index, 100)}

\* plausible bug: the score is rounded but not clamped
ComputeRiskScoreUnclamped(ratios, ethical_bias, rounded) ==
    [credit_risk |-> ratios.debt_equity,
     liquidity_ratio |-> ratios.current_ratio,
     volatility |-> ratios.volatility,
     ethical_bias |-> ethical_bias,
     risk_score |-> rounded,
     category |-> RiskLabel(rounded)]
\* compute_risk_score(ratios, ethical_bias), `rounded` being round(risk_index, 3):
\* risk_score = min(max(rounded, 0), 1) in thousandths
ComputeRiskScore(ratios, ethical_bias, rounded) ==
    LET risk_score == Min(Max(rounded, 0), 1000)
    IN  [credit_risk |-> ratios.debt_equity,
         liquidity_ratio |-> ratios.current_ratio,
         volatility |-> ratios.volatility,
         ethical_bias |-> ethical_bias,
         risk_score |-> risk_score,
         category |-> RiskLabel(risk_score)]

\* 2^k
RECURSIVE Pow2(_)
Pow2(k) == IF k = 0 THEN 1 ELSE 2 * Pow2(k - 1)

\* 2^k modulo 1000
RECURSIVE Pow2Mod1000(_)
Pow2Mod1000(k) == IF k = 0 THEN 1 ELSE (2 * Pow2Mod1000(k - 1)) % 1000

\* The binary64 float that holds the score x/1000 differs from it by
\* ScoreResidue(x), in units of 2^-62 / 1000: with e = floor(log2(|x|/1000))
\* and rem = (|x| * 2^(52 - e)) mod 1000 the float is rem/1000 of a unit in
\* the last place (2^(e - 52)) below |x|/1000, or (1000 - rem)/1000 above it.
ScoreResidue(x) ==
    IF x = 0 THEN 0
    ELSE LET mag == Abs(x)
             e == Log2Floor(mag, 1000)
             rem == ((mag % 1000) * Pow2Mod1000(52 - e)) % 1000
             r == (IF rem < 500 THEN 0 - rem ELSE 1000 - rem) * Pow2(e + 10)
         IN  IF x < 0 THEN 0 - r ELSE r

\* abs(diff) > 0.2 for diff = llm_score - econ_score, a float subtraction.
\* When the scores differ by 0.2 in decimal the outcome is decided by the
\* floats: the difference, rounded to the nearest float, exceeds the float
\* 0.2 iff it lies more than half a unit in the last place of 0.2 (2^-55)
\* above it.
DiffExceedsLimit(llm_score, econ_score) ==
    LET hi == Max(llm_score, econ_score)
        lo == Min(llm_score, econ_score)
    IN  IF hi - lo # 200 THEN hi - lo > 200
        ELSE ScoreResidue(hi) - ScoreResidue(lo) - ScoreResidue(200) > 500 * Pow2(7)

\* round(diff ** 2, 3) in thousandths; at a decimal tie the float square
\* lies just below or just above it and the rounding goes either way
RoundedSquare(llm_score, econ_score) ==
    LET square == (llm_score - econ_score) * (llm_score - econ_score)
    IN  IF square % 1000 = 500 THEN {square \div 1000, square \div 1000 + 1}
        ELSE {RoundDiv(square, 1000)}

\* compare_models(llm_score, econ_score), `variance` being round(diff ** 2, 3):
\* bias = round(diff, 3) in thousandths, hallucination_flag = abs(diff) > 0.2
CompareModels(llm_score, econ_score, variance) ==
    [llm_score |-> llm_score,
     econ_score |-> econ_score,
     bias |-> llm_score - econ_score,
     variance |-> variance,
     hallucination_flag |-> DiffExceedsLimit(llm_score, econ_score)]

-----------------------------------------------------------------------------
(* RiskAnalyzer harness: compute_ratios on drawn figures followed by        *)
(* compute_risk_score, and compute_risk_score on drawn ratios.              *)

\* scenario A's prices, the prices of the tests, and short and flat series
ScenarioAPrices == <<95, 98, 100, 102, 105, 104, 107, 106>>

PriceSeries == {<<>>, <<100>>, <<100, 100>>, <<100, 101, 100, 101>>, ScenarioAPrices}

\* a key of the figures may be missing
OptionalField(key, values) == {<<>>} \cup {KV(key, v) : v \in values}

Figures ==
    {Union2(Union2(Union2(a, b), Union2(c, d)), e) :
        a \in OptionalField("total_debt", {0, 500, 2000}),
        b \in OptionalField("total_equity", {0, 1000}),
        c \in OptionalField("current_assets", {800, 1500}),
        d \in OptionalField("current_liabilities", {0, 600, 1000}),
        e \in OptionalField("stock_prices", PriceSeries)}

\* ratios handed to compute_risk_score directly, the extreme ones included
RatioInputs ==
    [debt_equity : {-100000, -50, 0, 50, 100, 175, 300, 100000},
     current_ratio : {0, 50, 133, 200, 100000},
     volatility : {0, 400, 1200, 3919}]

EthicalBiases == {-100, 0, 10, 100}

\* score pairs handed to compare_models, in thousandths: scores as
\* compute_risk_score and econometric_baseline return them
ScorePairs ==
    [llm_score : {0, 200, 300, 400, 500, 600, 623, 800, 1000},
     econ_score : {-150, 0, 100, 300, 400, 500, 550, 600, 800, 1000, 1200}]

ScenarioA ==
    [total_debt |-> 500, total_equity |-> 1000, current_assets |-> 800,
     current_liabilities |-> 600, stock_prices |-> ScenarioAPrices]

InitRisk ==
    /\ MergeIdle /\ RunIdle /\ CiiIdle /\ JudgeIdle /\ HistIdle /\ PairIdle /\ HttpIdle
    /\ r_risk = Unset /\ r_compare = Unset
    /\ \/ /\ r_bias \in {Some(b) : b \in EthicalBiases}
          /\ r_scores = Unset
          /\ \/ r_data \in Figures \cup {ScenarioA} /\ r_ratios = Unset
             \/ r_data = Unset /\ r_ratios \in RatioInputs
       \/ /\ r_scores \in ScorePairs
          /\ r_bias = Unset /\ r_data = Unset /\ r_ratios = Unset

\* ratios = analyzer.compute_ratios(data)
CallComputeRatios ==
    /\ r_data # Unset
    /\ r_ratios = Unset
    /\ r_ratios' = ComputeRatios(r_data)
    /\ UNCHANGED <<r_data, r_bias, r_risk, r_scores, r_compare>>

\* risk = analyzer.compute_risk_score(ratios, ethical_bias)
CallComputeRiskScore ==
    /\ r_ratios # Unset
    /\ ~IsException(r_ratios)
    /\ r_risk = Unset
    /\ \E rounded \in RoundedRiskIndex(r_ratios, r_bias[1]) :
          r_risk' = ComputeRiskScore(r_ratios, r_bias[1], rounded)
    /\ UNCHANGED <<r_data, r_bias, r_ratios, r_scores, r_compare>>

\* compare = analyzer.compare_models(llm_score, econ_score)
CallCompareModels ==
    /\ r_scores # Unset
    /\ r_compare = Unset
    /\ \E variance \in RoundedSquare(r_scores.llm_score, r_scores.econ_score) :
          r_compare' = CompareModels(r_scores.llm_score, r_scores.econ_score, variance)
    /\ UNCHANGED <<r_data, r_bias, r_ratios, r_risk, r_scores>>

NextRisk ==
    /\ CallComputeRatios \/ CallComputeRiskScore \/ CallCompareModels
    /\ UNCHANGED <<mergeVars, runVars, ciiVars, judgeVars, histVars, pairVars, httpVars>>

SpecRisk == InitRisk /\ [][NextRisk]_vars

\* C15: whatever the ratios and the ethical bias, risk_score lies in [0,1].
RiskScoreInUnitInterval ==
    (r_risk # Unset) => (r_risk.risk_score >= 0 /\ r_risk.risk_score <= 1000)

\* a score was computed from an index far above 1 and clamped to 1
RiskIndexAboveOne ==
    /\ r_risk # Unset
    /\ r_ratios.debt_equity = 100000
    /\ r_ratios.current_ratio = 0
    /\ RiskIndex(r_ratios, r_bias[1]) > 100000
    /\ r_risk.risk_score = 1000

\* C16: the label follows the thresholds with the limits on the higher band:
\* Low Risk exactly when risk_score < 0.4, Moderate Risk exactly when
\* 0.4 <= risk_score < 0.7, High Risk exactly when risk_score >= 0.7.
RiskLabelLimitsOnHigherBand ==
    (r_risk # Unset) =>
        /\ (r_risk.category = "Low Risk") <=> (r_risk.risk_score < 400)
        /\ (r_risk.category = "Moderate Risk") <=>
              (r_risk.risk_score >= 400 /\ r_risk.risk_score < 700)
        /\ (r_risk.category = "High Risk") <=> (r_risk.risk_score >= 700)

\* what the code does: the limits belong to the lower band
RiskLabelLimitsOnLowerBand ==
    (r_risk # Unset) =>
        /\ (r_risk.category = "Low Risk") <=> (r_risk.risk_score <= 400)
        /\ (r_risk.category = "Moderate Risk") <=>
              (r_risk.risk_score > 400 /\ r_risk.risk_score <= 700)
        /\ (r_risk.category = "High Risk") <=> (r_risk.risk_score > 700)

\* a score of exactly 0.4 was labelled (debt_equity 1.0 and nothing else)
RiskScoreAtLowerLimit ==
    /\ r_risk # Unset
    /\ r_ratios = [debt_equity |-> 100, current_ratio |-> 0, volatility |-> 0]
    /\ r_bias = Some(0)
    /\ r_risk.risk_score = 400
    /\ r_risk.category = "Low Risk"

\* C17: compute_ratios does not raise when total_equity or
\* current_liabilities is 0 or missing: the denominator is taken as 1 and
\* the ratios are returned.
RatiosNeverRaise ==
    (r_data # Unset /\ r_ratios # Unset) =>
        /\ ~IsException(r_ratios)
        /\ (Get(r_data, "total_equity", 0) = 0) =>
              r_ratios.debt_equity = 100 * Get(r_data, "total_debt", 0)
        /\ (Get(r_data, "current_liabilities", 0) = 0) =>
              r_ratios.current_ratio = 100 * Get(r_data, "current_assets", 1)

\* what the code does: a missing denominator is taken as 1, a denominator
\* of 0 raises
RatiosRaiseOnZeroOnly ==
    (r_data # Unset /\ r_ratios # Unset) =>
        /\ IsException(r_ratios) <=>
              (Get(r_data, "total_equity", 1) = 0 \/ Get(r_data, "current_liabilities", 1) = 0)
        /\ (~IsException(r_ratios) /\ "total_equity" \notin DOMAIN r_data) =>
              r_ratios.debt_equity = 100 * Get(r_data, "total_debt", 0)
        /\ (~IsException(r_ratios) /\ "current_liabilities" \notin DOMAIN r_data) =>
              r_ratios.current_ratio = 100 * Get(r_data, "current_assets", 1)

\* compute_ratios was called with total_equity 0 and sound liabilities
ZeroEquityGiven ==
    /\ r_data # Unset
    /\ r_ratios # Unset
    /\ "total_equity" \in DOMAIN r_data
    /\ r_data.total_equity = 0
    /\ Get(r_data, "current_liabilities", 1) # 0
    /\ IsException(r_ratios)

\* C18: scenario A (debt 500, equity 1000, current assets 800, current
\* liabilities 600, the eight prices, ethical_bias 0.1) gives debt_equity
\* 0.5, current_ratio 1.33, a risk_score below 0.4 and the label Low Risk.
ScenarioAIsLowRisk ==
    (r_data = ScenarioA /\ r_bias = Some(10)) =>
        /\ (r_ratios # Unset) =>
              (r_ratios.debt_equity = 50 /\ r_ratios.current_ratio = 133)
        /\ (r_risk # Unset) =>
              (r_risk.risk_score < 400 /\ r_risk.category = "Low Risk")

\* scenario A was scored: the ratios are as stated, the volatility is the
\* standard deviation of the price levels, 3.919
ScenarioAScored ==
    /\ r_data = ScenarioA
    /\ r_bias = Some(10)
    /\ r_risk # Unset
    /\ r_ratios = [debt_equity |-> 50, current_ratio |-> 133, volatility |-> 3919]
    /\ r_risk.risk_score = 724
    /\ r_risk.category = "High Risk"

-----------------------------------------------------------------------------
(* JudgeAgent harness: _compute_hs on drawn arguments, the extreme ones     *)
(* included, and finalize on drawn verified records and base accuracies.    *)

\* bias in thousandths (from -5 to 5), variance in units of 1e-8 (up to 20),
\* interval width in units of 1e-6 (from -5 to 5)
HsArguments ==
    [bias : {-5000, -100, 0, 20, 100, 1000, 5000},
     var : {0, 10000, 250000, 100000000, 2000000000},
     ci_width : {-5000000, -1, 0, 130000, 263000, 1000000, 5000000}]

\* verified records: what validate returns for reports with one news item at most
JudgeVerified ==
    {Validate(r, BootstrapPreviousCii) :
        r \in {x \in RawRecords : /\ "news_rss" \in DOMAIN x
                                  /\ Len(x.news_rss) <= 1
                                  /\ x.technical_analysis.technical_confidence = 80}}

\* five draws of random.uniform(0.80, 0.95) whose score lies just below 60
DriftDraws == <<802, 805, 843, 936, 950>>

\* verified records holding an index, a trend and a cycle alignment only
\* (the index and the trend in hundredths), and records lacking them
FppVerified ==
    {[composite_integrity_index |-> [cii_score |-> c],
      temporal_integrity_trend |-> [tit_value |-> t],
      business_cycle_context |-> [cycle_alignment_score |-> y]] :
        c \in {0, 4000, 7000, 7385, 9800, 10000},
        t \in {-6800, -200, 0, 585, 2000, 3200},
        y \in {0, 50, 78, 100}}
       \cup {[composite_integrity_index |-> [cii_score |-> 10000]],
             [company_name |-> "hascol"]}

InitJudge ==
    /\ MergeIdle /\ RunIdle /\ CiiIdle /\ RiskIdle /\ HistIdle /\ PairIdle /\ HttpIdle
    /\ hs_value = Unset /\ j_final = Unset
    /\ \/ /\ hs_args \in HsArguments
          /\ j_verified = Unset /\ j_bases = Unset
       \/ /\ j_verified \in JudgeVerified
          /\ j_bases \in BaseDraws \cup {DriftDraws}
          /\ hs_args = Unset
       \/ /\ j_verified \in FppVerified
          /\ j_bases = HistBases
          /\ hs_args = Unset

\* self._compute_hs(bias, var, ci_width)
CallComputeHs ==
    /\ hs_args # Unset
    /\ hs_value = Unset
    /\ hs_value' = Some(ComputeHs(hs_args.bias, hs_args.var, hs_args.ci_width, 1))
    /\ UNCHANGED <<hs_args, j_verified, j_bases, j_final>>

\* final_json = JudgeAgent().finalize(verified)
CallFinalize ==
    /\ j_verified # Unset
    /\ j_final = Unset
    /\ \E feedback \in FeedbackOutcomes : j_final' = Finalize(j_verified, j_bases, feedback)
    /\ UNCHANGED <<hs_args, hs_value, j_verified, j_bases>>

NextJudge ==
    /\ CallComputeHs \/ CallFinalize
    /\ UNCHANGED <<mergeVars, runVars, ciiVars, riskVars, histVars, pairVars, httpVars>>

SpecJudge == InitJudge /\ [][NextJudge]_vars

InterpretationOfReportedScore ==
    (j_final # Unset /\ ~IsException(j_final)) =>
        j_final.hallucination_metrics.interpretation =
            InterpretHs(10000 * j_final.hallucination_metrics.hallucination_score)

\* what the code does: the interpretation is the band of the unrounded score
InterpretationOfUnroundedScore ==
    (j_final # Unset /\ ~IsException(j_final)) =>
        LET scores == [i \in 1..NSamples |-> SimulateAccuracy(j_verified, j_bases[i])]
            bv == ComputeBiasVariance(scores)
            ci == ComputeConfidenceInterval(scores)
        IN  j_final.hallucination_metrics.interpretation =
               InterpretHs(ComputeHs(bv.bias, bv.var, ci.width, NSamples))

\* a record was judged whose score, just below 60, is reported as 60.0 with
\* the interpretation of the band below 60
JudgedJustBelowBand ==
    /\ j_final # Unset
    /\ j_bases = DriftDraws
    /\ j_verified.ethical_confidence = 40
    /\ j_verified.risk_confidence = 50
    /\ j_final.hallucination_metrics.hallucination_score = 6000
    /\ j_final.hallucination_metrics.interpretation
          = "Moderate hallucination risk; cross-verify data."

\* the three outlooks of _compute_fpp
FppImproving == [outlook |-> "improving", forward_risk_level |-> "low", confidence |-> 90]
FppStable == [outlook |-> "stable", forward_risk_level |-> "moderate", confidence |-> 75]
FppDeclining == [outlook |-> "declining", forward_risk_level |-> "high", confidence |-> 60]

\* outlook, forward risk level and confidence of a judged record
FppTriple(final) ==
    [outlook |-> final.future_performance_perspective.outlook,
     forward_risk_level |-> final.future_performance_perspective.forward_risk_level,
     confidence |-> final.future_performance_perspective.confidence]

\* C21: with weighted = 0.5*CII + 0.3*TIT + 0.2*CycleAlignmentScore the
\* perspective is (improving, low, 90) when weighted >= 75, (stable,
\* moderate, 75) when 55 <= weighted < 75 and (declining, high, 60)
\* otherwise; no other combination is produced.
FppIsOneOfThreeTriples ==
    (j_final # Unset /\ ~IsException(j_final)) =>
        LET weighted == FppWeighted(j_verified)
        IN  /\ FppTriple(j_final) \in {FppImproving, FppStable, FppDeclining}
            /\ (FppTriple(j_final) = FppImproving) <=> (weighted >= 75000)
            /\ (FppTriple(j_final) = FppStable) <=> (weighted >= 55000 /\ weighted < 75000)
            /\ (FppTriple(j_final) = FppDeclining) <=> (weighted < 55000)

\* a record whose weighted score is exactly 75 (index 98, trend 20, cycle
\* 100) was judged improving
FppAtUpperLimit ==
    /\ j_final # Unset
    /\ j_verified \in FppVerified
    /\ FppWeighted(j_verified) = 75000
    /\ FppTriple(j_final) = FppImproving

\* C22: compare_models returns bias = llm - econ, variance = the square of
\* the reported bias, and hallucination_flag true exactly when |bias| > 0.2
\* (false at exactly 0.2), for all score pairs.
ComparisonFollowsBias ==
    (r_compare # Unset) =>
        /\ r_compare.bias = r_scores.llm_score - r_scores.econ_score
        /\ 1000 * r_compare.variance = r_compare.bias * r_compare.bias
        /\ r_compare.hallucination_flag <=> (Abs(r_compare.bias) > 200)

\* what the code does: the bias is the difference, the variance is the
\* square of the difference rounded to three decimals, and away from a
\* difference of exactly 0.2 the flag follows the bias
ComparisonFollowsDifference ==
    (r_compare # Unset) =>
        /\ r_compare.bias = r_scores.llm_score - r_scores.econ_score
        /\ 1000 * r_compare.variance - r_compare.bias * r_compare.bias \in -500..500
        /\ (Abs(r_compare.bias) # 200) =>
              (r_compare.hallucination_flag <=> (Abs(r_compare.bias) > 200))

\* the scores 0.8 and 0.6 were compared: the bias is 0.2, the variance 0.04
\* and the flag is set
FlaggedAtTheLimit ==
    /\ r_compare # Unset
    /\ r_scores = [llm_score |-> 800, econ_score |-> 600]
    /\ r_compare.bias = 200
    /\ r_compare.variance = 40
    /\ r_compare.hallucination_flag


-----------------------------------------------------------------------------
(* Two run_analysis calls in flight at once in one process (two request    *)
(* threads).  They share what the process holds: VerifierAgent's           *)
(* previous_cii, the Prometheus registry, and the module-level generator   *)
(* behind random.uniform, whose next value is a function of its seed and   *)
(* of how many values were drawn before.                                   *)

Invocations == {1, 2}

\* the subjects of the two calls
PairFilenames == <<(<<"hascol", "pdf">>), (<<"engro", "pdf">>)>>
PairCompanies == {"HASCOL", "ENGRO"}

\* random.seed(s) followed by random.uniform(0.80, 0.95), in thousandths:
\* the first ten values CPython yields for s = 0 and s = 1
GeneratorStream(seed) ==
    IF seed = 0 THEN <<927, 914, 863, 839, 877, 861, 918, 845, 871, 888>>
    ELSE <<820, 927, 915, 838, 874, 867, 898, 918, 814, 804>>

GeneratorSeeds == {0, 1}

\* the NSamples values drawn by one finalize call that starts after `drawn` draws
DrawBases(seed, drawn) == [k \in 1..NSamples |-> GeneratorStream(seed)[drawn + k]]

PairFeedback == [outcome |-> "missing", avg |-> 0]

InitPair ==
    /\ MergeIdle /\ CiiIdle /\ RiskIdle /\ JudgeIdle /\ HistIdle /\ HttpIdle
    /\ pc = "off" /\ run_filename = Unset /\ file_bytes = Unset /\ run_env = Unset
    /\ run_plan = Unset /\ raw_data = Unset /\ run_verified = Unset /\ final_json = Unset
    /\ returned = Unset /\ stages = <<>> /\ neo_graph = Unset
    /\ previous_cii = BootstrapPreviousCii
    /\ prom_gauges = [c \in PairCompanies |-> UnsetGauges]
    /\ rng_seed \in GeneratorSeeds
    /\ rng_drawn = 0
    /\ \E files \in [Invocations -> HistFiles], envs \in [Invocations -> HistEnvironments] :
          inv = [i \in Invocations |->
                    [stage |-> "start", filename |-> PairFilenames[i], file_bytes |-> files[i],
                     env |-> envs[i], raw_data |-> Unset, verified |-> Unset,
                     final_json |-> Unset]]

\* plan = create_plan(filename); raw_data = self.executor.execute(file_bytes, plan)
PairExecute(i) ==
    /\ inv[i].stage = "start"
    /\ inv' = [inv EXCEPT ![i].stage = "executed",
                          ![i].raw_data = Execute(inv[i].file_bytes, CreatePlan(inv[i].filename),
                                                  inv[i].env)]
    /\ UNCHANGED <<rng_seed, rng_drawn, runVars>>

\* verified = self.verifier.validate(raw_data)
PairValidate(i) ==
    /\ inv[i].stage = "executed"
    /\ inv' = [inv EXCEPT ![i].stage = "validated",
                          ![i].verified = Validate(inv[i].raw_data, previous_cii)]
    /\ UNCHANGED <<rng_seed, rng_drawn, runVars>>

\* final_json = self.judge.finalize(verified): _simulate_accuracy draws
\* NSamples values from the shared generator
PairFinalize(i) ==
    /\ inv[i].stage = "validated"
    /\ inv' = [inv EXCEPT ![i].stage = "finalized",
                          ![i].final_json = Finalize(inv[i].verified,
                                                     DrawBases(rng_seed, rng_drawn),
                                                     PairFeedback)]
    /\ rng_drawn' = rng_drawn + NSamples
    /\ UNCHANGED <<rng_seed, runVars>>

\* push_metrics(verified.get("company_name", "Unknown"), final_json)
PairPush(i) ==
    /\ inv[i].stage = "finalized"
    /\ LET company == Get(inv[i].verified, "company_name", "Unknown")
           result == PushMetrics(company, inv[i].final_json, prom_gauges, Len(GaugeNames))
       IN  /\ prom_gauges' = result.gauges
           /\ inv' = [inv EXCEPT ![i].stage = "pushed", ![i].final_json = result.data]
    /\ UNCHANGED <<rng_seed, rng_drawn, pc, run_filename, file_bytes, run_env, run_plan,
                   raw_data, run_verified, final_json, returned, stages, previous_cii,
                   neo_graph>>

NextPair ==
    /\ \E i \in Invocations : PairExecute(i) \/ PairValidate(i) \/ PairFinalize(i) \/ PairPush(i)
    /\ UNCHANGED <<mergeVars, ciiVars, riskVars, judgeVars, histVars, httpVars>>

SpecPair == InitPair /\ [][NextPair]_vars

\* what invocation i computes when it is the only one the process runs
AloneVerified(i) ==
    Validate(Execute(inv[i].file_bytes, CreatePlan(inv[i].filename), inv[i].env),
             BootstrapPreviousCii)
AloneFinal(i) == Finalize(AloneVerified(i), DrawBases(rng_seed, 0), PairFeedback)
AloneGauges(i) ==
    PushMetrics(AloneVerified(i).company_name, AloneFinal(i),
                [c \in PairCompanies |-> UnsetGauges],
                Len(GaugeNames)).gauges[AloneVerified(i).company_name]

Validated(i) == inv[i].stage \in {"validated", "finalized", "pushed"}

\* C23: two invocations for different subjects, interleaved in any way, leave
\* each invocation's verified record and the metrics exported for its subject
\* as they are when the invocation runs alone.
InvocationsDoNotInterfere ==
    \A i \in Invocations :
        /\ Validated(i) => inv[i].verified = AloneVerified(i)
        /\ inv[i].stage = "pushed" =>
              prom_gauges[inv[i].verified.company_name] = AloneGauges(i)

\* the verified record, and every exported gauge but the hallucination score,
\* are as when the invocation runs alone
VerifiedRecordsDoNotInterfere ==
    \A i \in Invocations :
        /\ Validated(i) => inv[i].verified = AloneVerified(i)
        /\ inv[i].stage = "pushed" =>
              \A g \in DOMAIN UnsetGauges \ {"hs"} :
                  prom_gauges[inv[i].verified.company_name][g] = AloneGauges(i)[g]

\* both invocations have exported their metrics, the second having drawn
\* its accuracies before the first
BothPushedInterleaved ==
    /\ \A i \in Invocations : inv[i].stage = "pushed"
    /\ inv[1].final_json.hallucination_metrics
          # AloneFinal(1).hallucination_metrics


-----------------------------------------------------------------------------
(* Records that lack top-level keys *)

\* the top-level keys validate and its estimators read from the raw record
RawKeys == {"company_name", "text_content", "operational_metrics", "technical_analysis",
            "news_rss"}

SeqRange(q) == {q[i] : i \in 1..Len(q)}

\* a structured validation failure listing exactly the keys in `missing`
IsValidationFailure(report, missing) ==
    /\ "missing_fields" \in DOMAIN report
    /\ SeqRange(report.missing_fields) = missing
    /\ "verified" \in DOMAIN report /\ ~report.verified

\* C24: a verification step (validate, verify) given a record that lacks
\* required top-level keys reports a validation failure listing exactly the
\* absent keys, and does not return a normal result built on defaults.
SchemaViolationReported ==
    /\ vf_report # Unset =>
          LET missing == SeqRange(RequiredFields) \ DOMAIN vf_result[1]
          IN  missing # {} => IsValidationFailure(vf_report, missing)
    /\ v_verified # Unset =>
          LET missing == RawKeys \ DOMAIN v_raw
          IN  missing # {} => IsValidationFailure(v_verified, missing)

\* verify lists exactly the absent required fields, and passes a result only
\* when none is absent
VerifyListsMissingFields ==
    vf_report # Unset =>
       /\ SeqRange(vf_report.missing_fields) = SeqRange(RequiredFields) \ DOMAIN vf_result[1]
       /\ vf_report.verified => vf_report.missing_fields = <<>>
       /\ vf_report.result = vf_result[1]

\* validate was given a record holding its text alone and returned a record
\* with every verified field
ValidatedWithoutKeys ==
    /\ v_verified # Unset
    /\ DOMAIN v_raw = {"text_content"}
    /\ "risk_level" \in DOMAIN v_verified
    /\ v_verified.company_name = "Unknown"


-----------------------------------------------------------------------------
(* Records returned by analyze_from_web and by the hybrid PDF analyses *)

HasToneAndRiskOrError(r) ==
    \/ {"tone", "risk_level"} \subseteq DOMAIN r
    \/ "error" \in DOMAIN r

\* C25: whatever the three switches and whatever the GPT call and the local
\* web search did, analyze_from_web returns a dictionary with both "tone" and
\* "risk_level", or with "error".
WebRecordHasToneOrError ==
    m_op = "web" => HasToneAndRiskOrError(merged)

\* when the local search found pages and no GPT record was obtained, the
\* record is the local one, which has both fields or "error"
WebRecordFromLocalHasToneOrError ==
    (m_op = "web" /\ gpt_json = EmptyDict /\ local_json # EmptyDict) =>
        merged = local_json /\ HasToneAndRiskOrError(merged)

\* analyze_from_web returned with neither a GPT record nor a local one
WebAnalysedNothing ==
    m_op = "web" /\ gpt_json = EmptyDict /\ local_json = EmptyDict /\ merged = EmptyDict

GptFailures == {GptError, GptParseError}

\* C26: in the hybrid PDF analyses a failed GPT analysis is not surfaced: the
\* returned record is the local record, with no "error" or "raw" added.
GptFailureNotSurfaced ==
    (m_op \in {"pdf", "pdf_bytes"} /\ gpt_json \in GptFailures) =>
        /\ merged = local_json
        /\ \A k \in {"error", "raw"} : k \in DOMAIN merged => k \in DOMAIN local_json

\* a GPT client that raises leaves the local record as the result
RaisedGptFailureNotSurfaced ==
    (m_op \in {"pdf", "pdf_bytes"} /\ ~m_called) => merged = local_json

\* a hybrid PDF analysis whose GPT answer could not be parsed
GptParseFailedInHybridPdf ==
    /\ m_op \in {"pdf", "pdf_bytes"} /\ m_called
    /\ gpt_json = GptParseError
    /\ "error" \notin DOMAIN local_json
    /\ "raw" \in DOMAIN merged


-----------------------------------------------------------------------------
(* core/middleware.py: ObservabilityMiddleware.dispatch, for one request.   *)
(* Durations are whole milliseconds.                                        *)

\* core/metrics.py: the methods class MetricsCollector defines
MetricsCollectorMethods == {"record_agent_task", "record_error", "record_analysis"}

\* metrics.<name>(...) on a MetricsCollector: the attribute lookup fails for a
\* name the class does not define
CallCollector(name) ==
    IF name \in MetricsCollectorMethods THEN [raised |-> FALSE, error |-> "none"]
    ELSE [raised |-> TRUE, error |-> "AttributeError"]

\* response.headers["X-Request-ID"] = request_id;
\* response.headers["X-Response-Time-MS"] = str(int(duration * 1000))
WithHeaders(response, request_id, duration) ==
    [response EXCEPT !.headers =
        [h \in DOMAIN response.headers \cup {"X-Request-ID", "X-Response-Time-MS"} |->
            CASE h = "X-Request-ID" -> request_id
              [] h = "X-Response-Time-MS" -> ToString(duration)
              [] OTHER -> response.headers[h]]]

JsonResponse(status, body) ==
    [status_code |-> status, body |-> body, headers |-> KV("content-type", "application/json")]

\* main.py health(): {"status": "healthy", "service": settings.PROJECT_NAME}
HealthResponse == JsonResponse(200, [status |-> "healthy", service |-> "AFIW-ZulfiQode"])

\* core/metrics.py get_metrics_endpoint(): Response(generate_latest(), CONTENT_TYPE_LATEST)
MetricsResponse ==
    [status_code |-> 200, body |-> [text |-> "# HELP"],
     headers |-> KV("content-type", "text/plain; version=0.0.4; charset=utf-8")]

HttpRequests ==
    [method : {"GET", "POST"}, path : {"/health", "/metrics", "/analyze", "/missing"},
     client : {"unknown", "127.0.0.1"}, request_id : {Unset}]

\* str(uuid.uuid4())[:8]
RequestIds == {"1f0c9a3e", "b7d24c55"}

\* elapsed whole milliseconds between the two time.time() readings
Durations == {0, 7, 1500}

\* an awaited call ends with a response, or with an exception of some type
Responded(response) == [raised |-> FALSE, error |-> "none", response |-> response]
Failed(error_type) == [raised |-> TRUE, error |-> error_type, response |-> Unset]

\* what call_next(request) does: the route's response, the router's 404 / 405,
\* or the exception the handler raised
HandlerOutcomes(request) ==
    CASE request.path = "/health" ->
            IF request.method = "GET" THEN {Responded(HealthResponse)}
            ELSE {Responded(JsonResponse(405, [detail |-> "Method Not Allowed"]))}
      [] request.path = "/metrics" ->
            IF request.method = "GET" THEN {Responded(MetricsResponse)}
            ELSE {Responded(JsonResponse(405, [detail |-> "Method Not Allowed"]))}
      [] request.path = "/analyze" ->
            IF request.method = "POST"
            THEN {Responded(JsonResponse(400, [error |-> "no file"])),
                  Responded(JsonResponse(500, [error |-> "analysis failed"])),
                  Responded(JsonResponse(200, [tone |-> "neutral"])),
                  Failed("ValidationError")}
            ELSE {Responded(JsonResponse(405, [detail |-> "Method Not Allowed"]))}
      [] OTHER -> {Responded(JsonResponse(404, [detail |-> "Not Found"]))}

InitHttp ==
    /\ MergeIdle /\ RunIdle /\ CiiIdle /\ RiskIdle /\ JudgeIdle /\ HistIdle /\ PairIdle
    /\ http_pc = "received"
    /\ http_request \in HttpRequests
    /\ http_handled = Unset
    /\ http_answer = Unset

\* request.state.request_id = request_id; start_time = time.time(); logger.info
DispatchStart ==
    /\ http_pc = "received"
    /\ \E id \in RequestIds : http_request' = [http_request EXCEPT !.request_id = id]
    /\ http_pc' = "calling"
    /\ UNCHANGED <<http_handled, http_answer>>

\* response = await call_next(request)
DispatchCallNext ==
    /\ http_pc = "calling"
    /\ \E outcome \in HandlerOutcomes(http_request) :
          /\ http_handled' = outcome
          /\ http_pc' = IF outcome.raised THEN "except" ELSE "try"
    /\ UNCHANGED <<http_request, http_answer>>

\* the rest of the try block: record_http_request, logger.info, the two
\* headers, return response
DispatchTry ==
    /\ http_pc = "try"
    /\ \E duration \in Durations :
          LET recorded == CallCollector("record_http_request")
          IN  IF recorded.raised
              THEN /\ http_pc' = "except"
                   /\ http_answer' = Failed(recorded.error)
              ELSE /\ http_pc' = "returned"
                   /\ http_answer' =
                         Responded(WithHeaders(http_handled.response,
                                               http_request.request_id, duration))
    /\ UNCHANGED <<http_request, http_handled>>

\* except Exception as e: record_error, logger.error, record_http_request(.., 500, ..),
\* raise.  An exception raised inside the handler replaces the one in flight.
DispatchExcept ==
    /\ http_pc = "except"
    /\ LET caught == IF http_answer # Unset THEN http_answer.error ELSE http_handled.error
           noted == CallCollector("record_error")
           recorded == CallCollector("record_http_request")
       IN  http_answer' =
              Failed(IF noted.raised THEN noted.error
                     ELSE IF recorded.raised THEN recorded.error ELSE caught)
    /\ http_pc' = "raised"
    /\ UNCHANGED <<http_request, http_handled>>

NextHttp ==
    /\ DispatchStart \/ DispatchCallNext \/ DispatchTry \/ DispatchExcept
    /\ UNCHANGED <<mergeVars, runVars, ciiVars, riskVars, judgeVars, histVars, pairVars>>

SpecHttp == InitHttp /\ [][NextHttp]_vars

HandlerReturned == http_handled # Unset /\ ~http_handled.raised
DispatchDone == http_pc \in {"returned", "raised"}

\* C27: a request whose handler returned a response is answered by dispatch
\* with that status and body plus X-Request-ID and X-Response-Time-MS (GET
\* /health: 200 and "healthy"; GET /metrics: 200); dispatch raises only when
\* the handler raised.
HandledRequestIsAnswered ==
    (DispatchDone /\ HandlerReturned) =>
        /\ ~http_answer.raised
        /\ http_answer.response.status_code = http_handled.response.status_code
        /\ http_answer.response.body = http_handled.response.body
        /\ {"X-Request-ID", "X-Response-Time-MS"} \subseteq DOMAIN http_answer.response.headers
        /\ (http_request.method = "GET" /\ http_request.path = "/health") =>
              http_answer.response.status_code = 200 /\ http_answer.response.body.status = "healthy"
        /\ (http_request.method = "GET" /\ http_request.path = "/metrics") =>
              http_answer.response.status_code = 200

\* when the handler raised, dispatch raises too
RaisingHandlerIsReraised ==
    (DispatchDone /\ http_handled # Unset /\ http_handled.raised) => http_answer.raised

\* GET /health went through dispatch after its handler returned 200
HealthRequestDispatched ==
    /\ DispatchDone /\ HandlerReturned
    /\ http_request.method = "GET" /\ http_request.path = "/health"
    /\ http_handled.response = HealthResponse


-----------------------------------------------------------------------------
(* The qualitative risk score of validated records *)

RiskKeywords == {"default", "loss"}

\* the news items that carry a risk keyword in their title or in their summary
RECURSIVE AdverseItems(_)
AdverseItems(news) ==
    IF news = <<>> THEN 0
    ELSE LET n == Head(news)
         IN  AdverseItems(Tail(news))
                + (IF (n.title \cup n.summary) \cap RiskKeywords # {} THEN 1 ELSE 0)

\* the news items with "default" in the title or "loss" in the summary
RECURSIVE MatchedItems(_)
MatchedItems(news) ==
    IF news = <<>> THEN 0
    ELSE LET n == Head(news)
         IN  MatchedItems(Tail(news))
                + (IF "default" \in n.title \/ "loss" \in n.summary THEN 1 ELSE 0)

NewsOf(raw) == Get(raw, "news_rss", <<>>)

\* adding any one item to the news never lowers the score
RiskNeverDecreases(raw) ==
    \A a \in Articles :
        EstimateRiskScore([k \in DOMAIN raw \cup {"news_rss"} |->
                              IF k = "news_rss" THEN Append(NewsOf(raw), a) ELSE raw[k]])
            >= EstimateRiskScore(raw)

\* C28: the risk score is 50 plus 15 for each news item with a default or
\* loss keyword in its title or its summary (either keyword in either field,
\* 15 per item at most), capped at 90, and never decreases when an item is
\* added.
RiskCountsEitherField ==
    v_verified # Unset =>
        /\ v_verified.risk_confidence = Min(90, 50 + 15 * AdverseItems(NewsOf(v_raw)))
        /\ RiskNeverDecreases(v_raw)

\* the score is 50 plus 15 for each item with "default" in its title or
\* "loss" in its summary, capped at 90, and never decreases
RiskCountsMatchedField ==
    v_verified # Unset =>
        /\ v_verified.risk_confidence = Min(90, 50 + 15 * MatchedItems(NewsOf(v_raw)))
        /\ RiskNeverDecreases(v_raw)

\* a validated record whose only news item has "loss" in its title and
\* "default" in its summary
RiskKeywordsInOtherField ==
    /\ v_verified # Unset
    /\ NewsOf(v_raw) = <<[title |-> {"loss"}, summary |-> {"default"}]>>
    /\ v_verified.risk_confidence = 50


-----------------------------------------------------------------------------
(* The perspective of records judged by the local pipeline *)

\* C29: every record the local pipeline judges has technical_confidence 0 or
\* 80 and its perspective is (declining, high, 60): "improving" and "stable"
\* are never produced, whatever the report and the news.
LocalPipelineAlwaysDeclining ==
    final_json # Unset =>
        /\ final_json.technical_analysis.technical_confidence \in {0, 80}
        /\ FppTriple(final_json) = FppDeclining
        /\ FppWeighted(final_json) < 55000

\* a judged record with the highest scores the pipeline gives: ethics 85,
\* risk 50, technical 80, index 73.85
JudgedAtBestScores ==
    /\ final_json # Unset
    /\ final_json.ethical_confidence = 85 /\ final_json.risk_confidence = 50
    /\ final_json.technical_analysis.technical_confidence = 80
    /\ final_json.composite_integrity_index.cii_score = 7385
    /\ FppWeighted(final_json) = 54280


\* C30: every record validate returns has risk_confidence 50, 65, 80 or 90
\* and risk_level "moderate" or "high"; "low" is never produced.
RiskLevelNeverLow ==
    v_verified # Unset =>
        /\ v_verified.risk_confidence \in {50, 65, 80, 90}
        /\ v_verified.risk_level \in {"moderate", "high"}
        /\ v_verified.risk_level = (IF v_verified.risk_confidence <= 70 THEN "moderate" ELSE "high")

\* a validated record whose news items all match, the sum passing the cap
RiskCappedAtNinety ==
    /\ v_verified # Unset
    /\ MatchedItems(NewsOf(v_raw)) = MaxItems
    /\ v_verified.risk_confidence = 90
    /\ v_verified.risk_level = "high"

====
